---- MODULE Spec2Model ----
(***************************************************************************)
(* A state-machine model of the multi-frame ultrasound pipeline of retuve: *)
(* the landmark -> metric converter, the bad-frame filter, the full-metric *)
(* hook loop of process_segs_us, the three ultrasound entry points and the *)
(* centering ratio.                                                        *)
(*                                                                         *)
(* Python lists are sequences, so list index i is sequence position i + 1; *)
(* frame_no and the keys of bad_frame_reasons keep the 0-based values of   *)
(* the code.  An absent point (None) is the empty tuple.                   *)
(***************************************************************************)
EXTENDS Integers, Sequences, FiniteSets, TLC

VARIABLES
    pc,                        \* position of the run that the specification describes
    list_landmarks,            \* the input of landmarks_2_metrics_us, one entry per frame
    measurements,              \* config.hip.measurements
    hip_mode,                  \* config.batch.hip_mode
    allow_irregular_illiums,   \* config.hip.allow_irregular_illiums
    hip_datas,                 \* HipDatasUS: the frames, in frame order
    all_seg_rejection_reasons, \* hip_datas.all_seg_rejection_reasons
    bad_frame_reasons,         \* hip_datas.bad_frame_reasons
    calls,                     \* number of handle_bad_frames applications so far
    pre_hip_datas,             \* the frames as the last handle_bad_frames call received them
    pre_bad_frame_reasons,     \* bad_frame_reasons as that call found it
    keep,                      \* the list remove_outliers returned last
    max_true_index,            \* the window start remove_outliers settled on
    entry,                     \* the entry point that is running
    full_metric_functions,     \* config.hip.full_metric_functions
    fm_i,                      \* position of the loop of process_segs_us over them
    custom_metrics,            \* hip_datas.custom_metrics
    dev_metrics_custom,        \* hip_datas.dev_metrics_custom
    graf_frame,                \* hip_datas.graf_frame
    study_metrics,             \* hip_datas.metrics
    failure,                   \* what raised inside process_segs_us, if anything did
    ret,                       \* what the entry point handed to its caller
    illium_mesh,               \* z coordinates of the vertices of the ilium mesh
    femoral_head_sphere,       \* the coordinate arrays of the femoral-head sphere
    ratio_result,              \* what get_centering_ratio returned
    run_hip_mode,              \* retuve_run's hip_mode argument, "direct" without retuve_run
    image_type,                \* what the image argument of the entry point is
    operation_type,            \* config.operation_type
    seg_preprocess_functions,  \* config.hip.seg_preprocess_functions
    sp_i,                      \* position of the loop of process_segs_us over them
    results,                   \* the segmentation results process_segs_us holds
    results_log,               \* results as each preprocess hook found it
    segs_input,                \* the results segs_2_landmarks_us was given
    fm_results,                \* the results each full-metric hook was called with
    draw_n,                    \* number of frames draw_hips_xray is given
    draw_i,                    \* position of its loop over the frames
    post_draw_functions,       \* config.hip.post_draw_functions
    per_frame_metric_functions, \* config.hip.per_frame_metric_functions
    pd_i,                      \* position of the loop over the post-draw hooks
    overlay,                   \* the overlay of the frame being drawn
    overlay_log,               \* the overlay as each post-draw hook found it
    image_arrays,              \* the images draw_hips_xray has finished
    poly_landmarks,            \* the list _polyfit_replace_apex works on
    poly_before,               \* that list as the call received it
    fit_raised                 \* whether np.polyfit raised in that call

filterVars == <<list_landmarks, measurements, hip_mode, allow_irregular_illiums,
                hip_datas, all_seg_rejection_reasons, bad_frame_reasons, calls,
                pre_hip_datas, pre_bad_frame_reasons, keep, max_true_index>>

pipeVars == <<entry, full_metric_functions, fm_i, custom_metrics, dev_metrics_custom,
              study_metrics, failure, ret>>

ratioVars == <<illium_mesh, femoral_head_sphere, ratio_result>>

inputVars == <<run_hip_mode, image_type, operation_type>>

segVars == <<seg_preprocess_functions, sp_i, results, results_log, segs_input,
             fm_results>>

drawVars == <<draw_n, draw_i, post_draw_functions, per_frame_metric_functions, pd_i,
              overlay, overlay_log, image_arrays>>

polyVars == <<poly_landmarks, poly_before, fit_raised>>

otherVars == <<inputVars, segVars, drawVars, polyVars>>

vars == <<pc, filterVars, pipeVars, graf_frame, ratioVars, otherVars>>

----------------------------------------------------------------------------
(* Bounds of the model *)

MaxFrames == 3      \* frames of a study in the filter specification
MaxCalls == 3       \* applications of handle_bad_frames to one study
MaxMask == 7        \* frames of a study in the window specification

----------------------------------------------------------------------------
(* Data *)

None == <<>>

Min(a, b) == IF a <= b THEN a ELSE b

Abs(a) == IF a < 0 THEN 0 - a ELSE a

Range(s) == {s[k] : k \in 1..Len(s)}

\* LandmarksUS: six point-or-None fields.  "set" is FALSE for landmarks = None.
LandmarksUS(left, right, apex) ==
    [set |-> TRUE, left |-> left, right |-> right, apex |-> apex,
     point_D |-> None, point_d |-> None, mid_cov_point |-> None]

NoLandmarks ==
    [set |-> FALSE, left |-> None, right |-> None, apex |-> None,
     point_D |-> None, point_d |-> None, mid_cov_point |-> None]

Metric2D(name, value) == [name |-> name, value |-> value, cls |-> "Metric2D"]

\* Metric3D(name, full=value)
Metric3D(name, value) == [name |-> name, value |-> value, cls |-> "Metric3D"]

\* HipDataUS(frame_no=n): no landmarks, no metrics.
EmptyHipFrameZero(frame_no) ==
    [frame_no |-> 0, landmarks |-> NoLandmarks, metrics |-> <<>>,
     has_pred |-> FALSE, alpha_bad |-> FALSE, coverage_bad |-> FALSE]

EmptyHip(frame_no) ==
    [frame_no |-> frame_no, landmarks |-> NoLandmarks, metrics |-> <<>>,
     has_pred |-> FALSE, alpha_bad |-> FALSE, coverage_bad |-> FALSE]

\* hip.marked(): the has-prediction flag of a frame.
marked(hip) == hip.has_pred

\* bad_alpha(hip), bad_coverage(hip, config): the external bounds checks.
bad_alpha(hip) == hip.alpha_bad

bad_coverage(hip) == hip.coverage_bad

IsEmptyHip(hip) == ~hip.landmarks.set /\ hip.metrics = <<>>

----------------------------------------------------------------------------
(* The frames a study is drawn from.  An entry is what segs_2_landmarks_us *)
(* hands on for one frame (the landmarks and the upstream rejection        *)
(* reasons) together with what the external subroutines answer for it.     *)

PLeft == <<0, 10>>
PApexFlat == <<10, 10>>
PApexSteep == <<10, 15>>
PRightFar == <<50, 50>>
PRightNear == <<11, 11>>

FrameIn(lm, alpha, coverage, pred, abad, cbad, reasons) ==
    [landmarks |-> lm, alpha |-> alpha, coverage |-> coverage, has_pred |-> pred,
     alpha_bad |-> abad, coverage_bad |-> cbad, rejection_reasons |-> reasons]

\* a frame that passes every validity rule
FrameGood ==
    FrameIn(LandmarksUS(PLeft, PRightFar, PApexFlat), 60, 50, TRUE, FALSE, FALSE, <<>>)
\* frames without a prediction
FrameBlank ==
    FrameIn(NoLandmarks, 0, 0, FALSE, FALSE, FALSE, <<"no ilium", "no femoral head">>)
FrameUnmarked ==
    FrameIn(LandmarksUS(PLeft, PRightFar, PApexFlat), 60, 50, FALSE, FALSE, FALSE, <<>>)
\* frames with a prediction that fail the validity rules from rule j on
FrameFail1 == FrameIn(NoLandmarks, 0, 0, TRUE, TRUE, TRUE, <<>>)
FrameFail2 == FrameIn(NoLandmarks, 60, 50, TRUE, TRUE, TRUE, <<>>)
FrameFail3 ==
    FrameIn(LandmarksUS(PLeft, PRightNear, PApexSteep), 60, 50, TRUE, TRUE, TRUE, <<>>)
FrameFail4 ==
    FrameIn(LandmarksUS(PLeft, PRightNear, PApexSteep), 60, 50, TRUE, FALSE, TRUE, <<>>)
FrameFail5 ==
    FrameIn(LandmarksUS(PLeft, PRightNear, PApexFlat), 60, 50, TRUE, FALSE, TRUE, <<>>)
FrameFail6 ==
    FrameIn(LandmarksUS(PLeft, None, PApexFlat), 60, 50, TRUE, FALSE, FALSE, <<>>)

FrameKinds ==
    {FrameGood, FrameBlank, FrameUnmarked, FrameFail1, FrameFail2, FrameFail3,
     FrameFail4, FrameFail5, FrameFail6}

MaskKinds == {FrameGood, FrameBlank}

SeqsUpTo(S, n) == UNION {[1..k -> S] : k \in 0..n}

----------------------------------------------------------------------------
(* landmarks_2_metrics_us *)

BuiltinMetrics(fr, meas) ==
    (IF "alpha" \in meas THEN <<Metric2D("alpha", fr.alpha)>> ELSE <<>>)
    \o (IF "coverage" \in meas THEN <<Metric2D("coverage", fr.coverage)>> ELSE <<>>)

HipDataUS(fr, meas, frame_no) ==
    [frame_no |-> frame_no, landmarks |-> fr.landmarks,
     metrics |-> BuiltinMetrics(fr, meas), has_pred |-> fr.has_pred,
     alpha_bad |-> fr.alpha_bad, coverage_bad |-> fr.coverage_bad]

landmarks_2_metrics_us(lms, meas) ==
    [k \in 1..Len(lms) |-> HipDataUS(lms[k], meas, k - 1)]

----------------------------------------------------------------------------
(* remove_outliers *)

pred_made(hds) == [k \in 1..Len(hds) |-> marked(hds[k])]

\* sum(pm[i : j]) for 0-based i, j
SumSlice(pm, i, j) == Cardinality({k \in (i + 1)..Min(j, Len(pm)) : pm[k]})

total_true(pm) == SumSlice(pm, 0, Len(pm))

\* the loop of lines 49-53 from index i on; the result is max_true_index
RECURSIVE WindowScanLast(_, _, _, _)
WindowScanLast(pm, i, max_true, mti) ==
    IF i >= Len(pm) - total_true(pm) + 1 THEN mti
    ELSE LET current_window_true == SumSlice(pm, i, i + total_true(pm))
         IN  IF current_window_true >= max_true
             THEN WindowScanLast(pm, i + 1, current_window_true, i)
             ELSE WindowScanLast(pm, i + 1, max_true, mti)

RECURSIVE WindowScan(_, _, _, _)
WindowScan(pm, i, max_true, mti) ==
    IF i >= Len(pm) - total_true(pm) + 1 THEN mti
    ELSE LET current_window_true == SumSlice(pm, i, i + total_true(pm))
         IN  IF current_window_true > max_true
             THEN WindowScan(pm, i + 1, current_window_true, i)
             ELSE WindowScan(pm, i + 1, max_true, mti)

\* a window that always starts at the first frame
WindowStartZero(pm) == 0

WindowStart(pm) == WindowScan(pm, 0, 0, 0)

\* lines 56-59 without the window: every frame with a prediction
KeepOfWindowAll(pm, start) == pm

KeepOfWindow(pm, start) ==
    [k \in 1..Len(pm) |-> pm[k] /\ start <= k - 1 /\ k - 1 < start + total_true(pm)]

remove_outliers(hds) == KeepOfWindow(pred_made(hds), WindowStart(pred_made(hds)))

----------------------------------------------------------------------------
(* The validity rules of handle_bad_frames *)

CloseLimit == 30

SqDist(p, q) == (p[1] - q[1]) * (p[1] - q[1]) + (p[2] - q[2]) * (p[2] - q[2])

\* left_apex_line_flat.  With C = left, A = apex, B = (apex.x, left.y) the
\* law of cosines gives cos(angle) = |CB| / |CA|, so the angle is below 10
\* degrees iff |AB|^2 < tan(10 deg)^2 * |CB|^2, and tan(10 deg)^2 = 0.031091.
\* |CB| = 0 makes the quotient 0/0 = nan, and abs(nan) < 10 is False.
left_apex_line_flat(hip) ==
    IF hip.landmarks.left = None \/ hip.landmarks.apex = None THEN TRUE
    ELSE LET a == Abs(hip.landmarks.left[1] - hip.landmarks.apex[1])
             c == Abs(hip.landmarks.apex[2] - hip.landmarks.left[2])
         IN  a > 0 /\ 1000000 * c * c < 31091 * a * a

apex_right_points_too_close(hip) ==
    IF hip.landmarks.right = None \/ hip.landmarks.apex = None THEN TRUE
    ELSE SqDist(hip.landmarks.right, hip.landmarks.apex) < CloseLimit * CloseLimit

\* (not hip.metrics) or all(metric.value == 0 for metric in hip.metrics)
NoMetrics(hip) ==
    hip.metrics = <<>> \/ \A k \in 1..Len(hip.metrics) : hip.metrics[k].value = 0

RECURSIVE Join(_)
Join(strs) ==
    IF Len(strs) = 0 THEN ""
    ELSE IF Len(strs) = 1 THEN strs[1]
    ELSE strs[1] \o " " \o Join(Tail(strs))

\* an empty bad_frame_reasons dict
NoReasons == [i \in {} |-> ""]

NoReason == [has |-> FALSE, text |-> ""]

Reason(text) == [has |-> TRUE, text |-> text]

\* One pass of the loop body of handle_bad_frames (lines 128-168) for the
\* frame hip with keep flag k: whether the frame is replaced by empty_hip, and
\* the entry written to bad_frame_reasons, if any.
FrameVerdictAlphaLate(hip, k, rejection_reasons, mode, allow) ==
    IF ~k THEN
        [empty |-> TRUE,
         reason |-> IF mode = "US2DSW"
                    THEN IF rejection_reasons = <<>> THEN Reason("Not Enough Data")
                         ELSE Reason(Join(rejection_reasons))
                    ELSE NoReason]
    ELSE IF NoMetrics(hip) THEN [empty |-> TRUE, reason |-> Reason("No Metrics")]
    ELSE IF ~hip.landmarks.set THEN [empty |-> TRUE, reason |-> Reason("No Landmarks")]
    ELSE IF ~left_apex_line_flat(hip) /\ ~allow
         THEN [empty |-> TRUE, reason |-> Reason("Ilium Line not Flat")]
    ELSE IF bad_alpha(hip)
         THEN [empty |-> TRUE, reason |-> Reason("Alpha Angle Non-Sensical")]
    ELSE IF bad_coverage(hip)
         THEN [empty |-> TRUE, reason |-> Reason("Coverage Value Non-Sensical")]
    ELSE IF apex_right_points_too_close(hip)
         THEN [empty |-> TRUE, reason |-> Reason("Apex and Right Too Close")]
    ELSE [empty |-> FALSE, reason |-> NoReason]

FrameVerdictNotEnough(hip, k, rejection_reasons, mode, allow) ==
    IF ~k THEN
        [empty |-> TRUE,
         reason |-> IF mode = "US2DSW" THEN Reason("Not Enough Data") ELSE NoReason]
    ELSE FrameVerdictAlphaLate(hip, TRUE, rejection_reasons, mode, TRUE)

FrameVerdict(hip, k, rejection_reasons, mode, allow) ==
    IF ~k THEN
        [empty |-> TRUE,
         reason |-> IF mode = "US2DSW"
                    THEN IF rejection_reasons = <<>> THEN Reason("Not Enough Data")
                         ELSE Reason(Join(rejection_reasons))
                    ELSE NoReason]
    ELSE IF NoMetrics(hip) THEN [empty |-> TRUE, reason |-> Reason("No Metrics")]
    ELSE IF ~hip.landmarks.set THEN [empty |-> TRUE, reason |-> Reason("No Landmarks")]
    ELSE IF bad_alpha(hip)
         THEN [empty |-> TRUE, reason |-> Reason("Alpha Angle Non-Sensical")]
    ELSE IF ~left_apex_line_flat(hip) /\ ~allow
         THEN [empty |-> TRUE, reason |-> Reason("Ilium Line not Flat")]
    ELSE IF bad_coverage(hip)
         THEN [empty |-> TRUE, reason |-> Reason("Coverage Value Non-Sensical")]
    ELSE IF apex_right_points_too_close(hip)
         THEN [empty |-> TRUE, reason |-> Reason("Apex and Right Too Close")]
    ELSE [empty |-> FALSE, reason |-> NoReason]

KeepListWindowed(hds, mode) == remove_outliers(hds)

\* keep, lines 117-120
KeepList(hds, mode) == IF mode = "US2DSW" THEN pred_made(hds) ELSE remove_outliers(hds)

\* handle_bad_frames with rules that write their reason and leave the frame
handle_bad_frames_reason_only(hds, reasons, mode, allow) ==
    LET kp == KeepList(hds, mode)
        n == Min(Len(hds), Len(reasons))
        v(k) == FrameVerdict(hds[k], kp[k], reasons[k], mode, allow)
    IN  [hip_datas |->
            [k \in 1..Len(hds) |->
                IF k <= n /\ ~kp[k] THEN EmptyHip(hds[k].frame_no) ELSE hds[k]],
         bad_frame_reasons |->
            [i \in {k - 1 : k \in {j \in 1..n : v(j).reason.has}} |-> v(i + 1).reason.text]]

\* handle_bad_frames with a loop over every frame, a frame without an entry
\* in all_seg_rejection_reasons taking no upstream reasons
handle_bad_frames_every(hds, reasons, mode, allow) ==
    LET kp == KeepList(hds, mode)
        v(k) == FrameVerdict(hds[k], kp[k], IF k <= Len(reasons) THEN reasons[k] ELSE <<>>,
                             mode, allow)
    IN  [hip_datas |->
            [k \in 1..Len(hds) |->
                IF v(k).empty THEN EmptyHip(hds[k].frame_no) ELSE hds[k]],
         bad_frame_reasons |->
            [i \in {k - 1 : k \in {j \in 1..Len(hds) : v(j).reason.has}} |->
                v(i + 1).reason.text]]

\* handle_bad_frames: the frames and bad_frame_reasons it leaves.  The loop
\* runs over zip(hip_datas, all_seg_rejection_reasons); pass i reads and
\* writes frame i alone, and keep is fixed before the loop.
handle_bad_frames(hds, reasons, mode, allow) ==
    LET kp == KeepList(hds, mode)
        n == Min(Len(hds), Len(reasons))
        v(k) == FrameVerdict(hds[k], kp[k], reasons[k], mode, allow)
    IN  [hip_datas |->
            [k \in 1..Len(hds) |->
                IF k <= n /\ v(k).empty THEN EmptyHip(hds[k].frame_no) ELSE hds[k]],
         bad_frame_reasons |->
            [i \in {k - 1 : k \in {j \in 1..n : v(j).reason.has}} |-> v(i + 1).reason.text]]

----------------------------------------------------------------------------------------------------------------------------------------
(* Values of the parts of the state a specification does not use *)

\* graf_frame is None
NoGraf == -1

\* a list attribute that is None, and one that holds a list
NoList == [set |-> FALSE, items |-> <<>>]

List(items) == [set |-> TRUE, items |-> items]

NoDict == [i \in {} |-> 0]

Running == [status |-> "running", all_none |-> FALSE, metrics |-> NoList]

IdlePipe ==
    /\ entry = "none"
    /\ full_metric_functions = <<>>
    /\ fm_i = 0
    /\ custom_metrics = NoList
    /\ dev_metrics_custom = NoDict
    /\ study_metrics = NoList
    /\ failure = "none"
    /\ ret = Running

IdleRatio ==
    /\ illium_mesh = {}
    /\ femoral_head_sphere = <<>>
    /\ ratio_result = <<>>

IdleFilter ==
    /\ list_landmarks = <<>>
    /\ measurements = {}
    /\ hip_mode = "US3D"
    /\ allow_irregular_illiums = FALSE
    /\ hip_datas = <<>>
    /\ all_seg_rejection_reasons = <<>>
    /\ bad_frame_reasons = [i \in {} |-> ""]
    /\ calls = 0
    /\ pre_hip_datas = <<>>
    /\ pre_bad_frame_reasons = [i \in {} |-> ""]
    /\ keep = <<>>
    /\ max_true_index = 0

\* a direct call of an entry point with a DICOM dataset and the SEG operation
IdleInput ==
    /\ run_hip_mode = "direct"
    /\ image_type = "DICOM"
    /\ operation_type = "SEG"

IdleSeg ==
    /\ seg_preprocess_functions = <<>>
    /\ sp_i = 0
    /\ results = None
    /\ results_log = <<>>
    /\ segs_input = None
    /\ fm_results = <<>>

IdleDraw ==
    /\ draw_n = 0
    /\ draw_i = 0
    /\ post_draw_functions = <<>>
    /\ per_frame_metric_functions = <<>>
    /\ pd_i = 0
    /\ overlay = None
    /\ overlay_log = <<>>
    /\ image_arrays = <<>>

IdlePoly ==
    /\ poly_landmarks = <<>>
    /\ poly_before = <<>>
    /\ fit_raised = FALSE

IdleOther == IdleInput /\ IdleSeg /\ IdleDraw /\ IdlePoly

----------------
(* The filter specification: one study is converted and then filtered any  *)
(* number of times.                                                        *)

Modes == {"US3D", "US2DSW"}

MeasurementSets == {{"alpha", "coverage"}, {}}

InitFilter ==
    /\ pc = "landmarks"
    /\ list_landmarks \in SeqsUpTo(FrameKinds, MaxFrames)
    /\ measurements \in MeasurementSets
    /\ hip_mode \in Modes
    /\ allow_irregular_illiums \in BOOLEAN
    /\ hip_datas = <<>>
    /\ all_seg_rejection_reasons = <<>>
    /\ bad_frame_reasons = NoReasons
    /\ calls = 0
    /\ pre_hip_datas = <<>>
    /\ pre_bad_frame_reasons = NoReasons
    /\ keep = <<>>
    /\ max_true_index = 0
    /\ graf_frame = NoGraf
    /\ IdlePipe
    /\ IdleRatio
    /\ IdleOther

\* process_segs_us, lines 155-156
Convert ==
    /\ pc = "landmarks"
    /\ hip_datas' = landmarks_2_metrics_us(list_landmarks, measurements)
    /\ all_seg_rejection_reasons' =
           [k \in 1..Len(list_landmarks) |-> list_landmarks[k].rejection_reasons]
    /\ pc' = "hip_datas"
    /\ UNCHANGED <<list_landmarks, measurements, hip_mode, allow_irregular_illiums,
                   bad_frame_reasons, calls, pre_hip_datas, pre_bad_frame_reasons,
                   keep, max_true_index, pipeVars, graf_frame, ratioVars, otherVars>>

HandleBadFrames ==
    /\ pc = "hip_datas"
    /\ calls < MaxCalls
    /\ LET r == handle_bad_frames(hip_datas, all_seg_rejection_reasons, hip_mode,
                                  allow_irregular_illiums)
       IN  /\ hip_datas' = r.hip_datas
           /\ bad_frame_reasons' = r.bad_frame_reasons
    /\ keep' = KeepList(hip_datas, hip_mode)
    /\ max_true_index' = IF hip_mode = "US2DSW" THEN max_true_index
                         ELSE WindowStart(pred_made(hip_datas))
    /\ pre_hip_datas' = hip_datas
    /\ pre_bad_frame_reasons' = bad_frame_reasons
    /\ calls' = calls + 1
    /\ UNCHANGED <<pc, list_landmarks, measurements, hip_mode, allow_irregular_illiums,
                   all_seg_rejection_reasons, pipeVars, graf_frame, ratioVars, otherVars>>

NextFilter == Convert \/ HandleBadFrames

SpecFilter == InitFilter /\ [][NextFilter]_vars

\* The same with an all_seg_rejection_reasons that may be shorter than the
\* frames: segs_2_landmarks_us returns the two lists separately.
ZipKinds == {FrameGood, FrameBlank, FrameUnmarked, FrameFail1}

InitZip ==
    /\ pc = "landmarks"
    /\ list_landmarks \in SeqsUpTo(ZipKinds, MaxFrames)
    /\ measurements = {"alpha", "coverage"}
    /\ hip_mode \in Modes
    /\ allow_irregular_illiums = FALSE
    /\ hip_datas = <<>>
    /\ all_seg_rejection_reasons = <<>>
    /\ bad_frame_reasons = NoReasons
    /\ calls = 0
    /\ pre_hip_datas = <<>>
    /\ pre_bad_frame_reasons = NoReasons
    /\ keep = <<>>
    /\ max_true_index = 0
    /\ graf_frame = NoGraf
    /\ IdlePipe
    /\ IdleRatio
    /\ IdleOther

\* process_segs_us, lines 151-156
ConvertZip ==
    /\ pc = "landmarks"
    /\ hip_datas' = landmarks_2_metrics_us(list_landmarks, measurements)
    /\ \E n \in 0..Len(list_landmarks) :
           all_seg_rejection_reasons' =
               [k \in 1..n |-> list_landmarks[k].rejection_reasons]
    /\ pc' = "hip_datas"
    /\ UNCHANGED <<list_landmarks, measurements, hip_mode, allow_irregular_illiums,
                   bad_frame_reasons, calls, pre_hip_datas, pre_bad_frame_reasons,
                   keep, max_true_index, pipeVars, graf_frame, ratioVars, otherVars>>

NextZip == ConvertZip \/ HandleBadFrames

SpecZip == InitZip /\ [][NextZip]_vars

----------------------------------------------------------------------------
(* The window specification: remove_outliers on the has-prediction mask of *)
(* a study of up to MaxMask frames.                                        *)

InitWindow ==
    /\ pc = "landmarks"
    /\ list_landmarks \in SeqsUpTo(MaskKinds, MaxMask)
    /\ measurements = {"alpha", "coverage"}
    /\ hip_mode = "US3D"
    /\ allow_irregular_illiums = FALSE
    /\ hip_datas = <<>>
    /\ all_seg_rejection_reasons = <<>>
    /\ bad_frame_reasons = NoReasons
    /\ calls = 0
    /\ pre_hip_datas = <<>>
    /\ pre_bad_frame_reasons = NoReasons
    /\ keep = <<>>
    /\ max_true_index = 0
    /\ graf_frame = NoGraf
    /\ IdlePipe
    /\ IdleRatio
    /\ IdleOther

RemoveOutliers ==
    /\ pc = "hip_datas"
    /\ keep' = remove_outliers(hip_datas)
    /\ max_true_index' = WindowStart(pred_made(hip_datas))
    /\ pc' = "keep"
    /\ UNCHANGED <<list_landmarks, measurements, hip_mode, allow_irregular_illiums,
                   hip_datas, all_seg_rejection_reasons, bad_frame_reasons, calls,
                   pre_hip_datas, pre_bad_frame_reasons, pipeVars, graf_frame, ratioVars, otherVars>>

NextWindow == Convert \/ RemoveOutliers

SpecWindow == InitWindow /\ [][NextWindow]_vars

----------------------------------------------------------------------------------------------------------------------------------------
(* get_centering_ratio.  A mean is kept as the fraction sum / count, the   *)
(* rounded ratio as an integer number of hundredths.                       *)

MaxZ == 4           \* largest z coordinate of a mesh vertex
MaxGraf == 2        \* largest Graf frame index

RECURSIVE SumSeq(_)
SumSeq(xs) == IF xs = <<>> THEN 0 ELSE Head(xs) + SumSeq(Tail(xs))

\* np.mean
Mean(xs) == [num |-> SumSeq(xs), den |-> Len(xs)]

Whole(z) == [num |-> z, den |-> 1]

SetMin(S) == CHOOSE z \in S : \A y \in S : z <= y

SetMax(S) == CHOOSE z \in S : \A y \in S : z >= y

\* n / d for d > 0, rounded to the nearest integer, a tie going to the even one
RoundHalfEven(n, d) ==
    LET q == n \div d
        r == n - q * d
    IN  IF 2 * r < d THEN q
        ELSE IF 2 * r > d THEN q + 1
        ELSE IF q % 2 = 0 THEN q ELSE q + 1

\* round((num / den), 2) for floats: a zero denominator gives inf or nan, not an error
RoundedRatio(num, den) ==
    IF den = 0
    THEN [kind |-> IF num > 0 THEN "inf" ELSE IF num < 0 THEN "-inf" ELSE "nan",
          hundredths |-> 0]
    ELSE [kind |-> "finite", hundredths |-> RoundHalfEven(100 * num, den)]

get_centering_ratio_falsy(mesh, sphere, graf) ==
    IF graf = NoGraf \/ graf = 0 THEN
        [ratio |-> [kind |-> "finite", hundredths |-> 0],
         points |-> <<None, None, None>>, read_mesh |-> FALSE]
    ELSE
        LET min_z == SetMin(mesh)
            max_z == SetMax(mesh)
            fem_center == <<Mean(sphere[1]), Mean(sphere[2]), Mean(sphere[3])>>
        IN  [ratio |-> RoundedRatio(fem_center[3].num - graf * fem_center[3].den,
                                    fem_center[3].den * (max_z - min_z)),
             points |-> <<fem_center, <<fem_center[1], fem_center[2], Whole(max_z)>>,
                          <<fem_center[1], fem_center[2], Whole(min_z)>>>>,
             read_mesh |-> TRUE]

get_centering_ratio_flipped(mesh, sphere, graf) ==
    IF graf = NoGraf THEN
        [ratio |-> [kind |-> "finite", hundredths |-> 0],
         points |-> <<None, None, None>>, read_mesh |-> FALSE]
    ELSE
        LET min_z == SetMax(mesh)
            max_z == SetMin(mesh)
            fem_center == <<Mean(sphere[1]), Mean(sphere[2]), Mean(sphere[3])>>
            min_z_vert == <<fem_center[1], fem_center[2], Whole(min_z)>>
            max_z_vert == <<fem_center[1], fem_center[2], Whole(max_z)>>
        IN  [ratio |-> RoundedRatio(fem_center[3].num - graf * fem_center[3].den,
                                    fem_center[3].den * (max_z - min_z)),
             points |-> <<fem_center, max_z_vert, min_z_vert>>,
             read_mesh |-> TRUE]

\* get_centering_ratio(illium_mesh, femoral_head_sphere, hip_datas): the ratio,
\* the three points, and whether the mesh vertices were read
get_centering_ratio(mesh, sphere, graf) ==
    IF graf = NoGraf THEN
        [ratio |-> [kind |-> "finite", hundredths |-> 0],
         points |-> <<None, None, None>>, read_mesh |-> FALSE]
    ELSE
        LET min_z == SetMin(mesh)
            max_z == SetMax(mesh)
            fem_center == <<Mean(sphere[1]), Mean(sphere[2]), Mean(sphere[3])>>
            min_z_vert == <<fem_center[1], fem_center[2], Whole(min_z)>>
            max_z_vert == <<fem_center[1], fem_center[2], Whole(max_z)>>
        IN  [ratio |-> RoundedRatio(fem_center[3].num - graf * fem_center[3].den,
                                    fem_center[3].den * (max_z - min_z)),
             points |-> <<fem_center, max_z_vert, min_z_vert>>,
             read_mesh |-> TRUE]

Spheres == {<<<<1, 3>>, <<2, 2>>, zs>> : zs \in {<<0>>, <<1, 2>>, <<2, 4>>, <<1, 2, 4>>}}

InitRatio ==
    /\ pc = "ratio_args"
    /\ illium_mesh \in (SUBSET (0..MaxZ)) \ {{}}
    /\ femoral_head_sphere \in Spheres
    /\ graf_frame \in {NoGraf} \cup 0..MaxGraf
    /\ ratio_result = <<>>
    /\ IdleFilter
    /\ IdlePipe
    /\ IdleOther

GetCenteringRatio ==
    /\ pc = "ratio_args"
    /\ ratio_result' = get_centering_ratio(illium_mesh, femoral_head_sphere, graf_frame)
    /\ pc' = "ratio_done"
    /\ UNCHANGED <<filterVars, pipeVars, graf_frame, illium_mesh, femoral_head_sphere,
                   otherVars>>

NextRatio == GetCenteringRatio

SpecRatio == InitRatio /\ [][NextRatio]_vars

----------------------------------------------------------------------------
(* process_segs_us: the loop over config.hip.full_metric_functions *)

PipeFrames == 2     \* frames of a study in the pipeline specification
MaxHooks == 2       \* registered full-metric functions

\* A registered (name, callable) pair.  The callable takes "arity" positional
\* parameters; called with that many arguments it does what "body" says: it
\* returns value, the pair (value, extra) or the dict extra, or it raises.
\* "native" tells a callable implemented in C (len, abs, ...) from a function
\* defined in Python: the two word their wrong-argument-count TypeError
\* differently.
Hook(name, arity, body, value, extra) ==
    [name |-> name, arity |-> arity, body |-> body, value |-> value, extra |-> extra,
     native |-> FALSE]

NativeHook(name, arity, value) ==
    [name |-> name, arity |-> arity, body |-> "scalar", value |-> value, extra |-> NoDict,
     native |-> TRUE]

Dict1 == [k \in {"seen"} |-> 1]

Dict2 == [k \in {"seen", "count"} |-> 2]

HookKinds ==
    {Hook("m1", 3, "scalar", 43, NoDict),
     Hook("m1", 2, "scalar", 42, NoDict),
     Hook("m1", 1, "scalar", 41, NoDict),
     Hook("m1", 0, "scalar", 40, NoDict),
     Hook("m1", 3, "pair", 7, Dict1),
     Hook("m1", 3, "dict", 9, Dict2),
     Hook("m1", 3, "raise_Exception", 5, NoDict),
     Hook("m1", 3, "raise_TypeError", 5, NoDict),
     Hook("m1", 1, "raise_TypeError_positional", 5, NoDict),
     Hook("m2", 1, "pair", 8, Dict2),
     NativeHook("m2", 1, 3)}

\* What metric_func(*args) does for len(args) = nargs.  A Python function
\* reports a wrong number of arguments as TypeError "f() takes 1 positional
\* argument but 3 were given"; a native callable as TypeError "len() takes
\* exactly one argument (3 given)".
CallOutcome(h, nargs) ==
    IF h.arity = nargs THEN h.body
    ELSE IF h.native THEN "arity_error_native" ELSE "arity_error"

\* except TypeError as e: "positional argument" in str(e)
IsArityError(outcome) == outcome \in {"arity_error", "raise_TypeError_positional"}

\* a TypeError whose message lacks "positional argument": raise e, line 194
IsOtherTypeError(outcome) == outcome \in {"raise_TypeError", "arity_error_native"}

\* the argument tuples of lines 170-174, by their lengths
Signatures == <<3, 2, 1>>

\* lines 167-196: value, dev_extra, or the exception that leaves the loop
RECURSIVE TryCallsNoDictShape(_, _)
TryCallsNoDictShape(h, sigs) ==
    IF sigs = <<>> THEN [raised |-> FALSE, value |-> 0, dev_extra |-> NoDict]
    ELSE LET o == CallOutcome(h, Head(sigs))
         IN  IF o = "pair" THEN [raised |-> FALSE, value |-> h.value, dev_extra |-> h.extra]
             ELSE IF o \in {"scalar", "dict"}
                  THEN [raised |-> FALSE, value |-> h.value, dev_extra |-> NoDict]
             ELSE IF IsArityError(o) THEN TryCallsNoDictShape(h, Tail(sigs))
             ELSE IF IsOtherTypeError(o)
                  THEN [raised |-> TRUE, value |-> 0, dev_extra |-> NoDict]
             ELSE [raised |-> FALSE, value |-> 0, dev_extra |-> NoDict]

RECURSIVE TryCalls(_, _)
TryCalls(h, sigs) ==
    IF sigs = <<>> THEN [raised |-> FALSE, value |-> 0, dev_extra |-> NoDict]
    ELSE LET o == CallOutcome(h, Head(sigs))
         IN  IF o = "pair" THEN [raised |-> FALSE, value |-> h.value, dev_extra |-> h.extra]
             ELSE IF o = "dict" THEN [raised |-> FALSE, value |-> 0, dev_extra |-> h.extra]
             ELSE IF o = "scalar"
                  THEN [raised |-> FALSE, value |-> h.value, dev_extra |-> NoDict]
             ELSE IF IsArityError(o) THEN TryCalls(h, Tail(sigs))
             ELSE IF IsOtherTypeError(o)
                  THEN [raised |-> TRUE, value |-> 0, dev_extra |-> NoDict]
             ELSE [raised |-> FALSE, value |-> 0, dev_extra |-> NoDict]

RunFullMetric(h) == TryCalls(h, Signatures)

\* dict.update
Update(d, e) == [k \in (DOMAIN d) \cup (DOMAIN e) |-> IF k \in DOMAIN e THEN e[k] ELSE d[k]]

MergeDevExtraAssign(dev, name, dev_extra) ==
    IF dev_extra = NoDict THEN dev
    ELSE [n \in (DOMAIN dev) \cup {name} |-> IF n = name THEN dev_extra ELSE dev[n]]

\* lines 209-216
MergeDevExtra(dev, name, dev_extra) ==
    IF dev_extra = NoDict THEN dev
    ELSE [n \in (DOMAIN dev) \cup {name} |->
             IF n = name
             THEN Update(IF name \in DOMAIN dev THEN dev[name] ELSE NoDict, dev_extra)
             ELSE dev[n]]

\* the called_by_2dus argument the entry point passes
CalledBy2dus(e) == e \in {"analyse_hip_2DUS", "analyse_hip_2DUS_sweep"}

CustomMetricAlways2D(e, name, value) == Metric2D(name, value)

\* lines 201-206
CustomMetric(e, name, value) ==
    IF CalledBy2dus(e) THEN Metric2D(name, value) ELSE Metric3D(name, value)

\* what an exception leaving process_segs_us becomes: analyse_hip_2DUS logs it
\* and returns (None, None, None); the other two entry points re-raise it
\* before their return statement is reached.
AllNone == [status |-> "returned", all_none |-> TRUE, metrics |-> NoList]

Raised == [status |-> "raised", all_none |-> FALSE, metrics |-> NoList]

OnProcessSegsError(e) == IF e = "analyse_hip_2DUS" THEN AllNone ELSE Raised

Returned(metrics) == [status |-> "returned", all_none |-> FALSE, metrics |-> metrics]

\* metrics += custom_metrics, guarded by custom_metrics is not None
MergeMetricsCustomOnly(builtin, custom) == IF custom.set THEN custom.items ELSE builtin

MergeMetrics(builtin, custom) == IF custom.set THEN builtin \o custom.items ELSE builtin

\* the whole-study metrics get_3d_metrics_and_visuals leaves in hip_datas.metrics
Aggregate3D == <<Metric3D("Cen. ratio", 0), Metric3D("Aca", 0)>>

\* the frames find_graf_plane may choose: a frame the filter kept
GrafCandidates(hds) == {k - 1 : k \in {j \in 1..Len(hds) : ~IsEmptyHip(hds[j])}}

Entries == {"analyse_hip_3DUS", "analyse_hip_2DUS", "analyse_hip_2DUS_sweep"}

ModeOf(e) ==
    IF e = "analyse_hip_3DUS" THEN "US3D"
    ELSE IF e = "analyse_hip_2DUS" THEN "US2D" ELSE "US2DSW"

PipeKinds == {FrameGood, FrameBlank}

Init ==
    /\ pc = "start"
    /\ entry \in Entries
    /\ hip_mode = ModeOf(entry)
    /\ list_landmarks \in SeqsUpTo(PipeKinds, PipeFrames) \ {<<>>}
    /\ measurements = {"alpha", "coverage"}
    /\ allow_irregular_illiums = FALSE
    /\ full_metric_functions \in SeqsUpTo(HookKinds, MaxHooks)
    /\ hip_datas = <<>>
    /\ all_seg_rejection_reasons = <<>>
    /\ bad_frame_reasons = NoReasons
    /\ calls = 0
    /\ pre_hip_datas = <<>>
    /\ pre_bad_frame_reasons = NoReasons
    /\ keep = <<>>
    /\ max_true_index = 0
    /\ fm_i = 0
    /\ custom_metrics = NoList
    /\ dev_metrics_custom = NoDict
    /\ study_metrics = NoList
    /\ graf_frame = NoGraf
    /\ failure = "none"
    /\ ret = Running
    /\ IdleRatio
    /\ IdleOther

configVars == <<list_landmarks, measurements, hip_mode, allow_irregular_illiums, entry,
                full_metric_functions>>

filterHistory == <<bad_frame_reasons, calls, pre_hip_datas, pre_bad_frame_reasons, keep,
                   max_true_index>>

\* line 122: modes_func returns the segmentation results
Detect ==
    /\ pc = "start"
    /\ pc' = "segs"
    /\ UNCHANGED <<configVars, filterHistory, hip_datas, all_seg_rejection_reasons, fm_i,
                   custom_metrics, dev_metrics_custom, study_metrics, graf_frame, failure,
                   ret, ratioVars, otherVars>>

\* line 122: modes_func raises
DetectRaises ==
    /\ pc = "start"
    /\ failure' = "detection"
    /\ ret' = OnProcessSegsError(entry)
    /\ pc' = "done"
    /\ UNCHANGED <<configVars, filterHistory, hip_datas, all_seg_rejection_reasons, fm_i,
                   custom_metrics, dev_metrics_custom, study_metrics, graf_frame, ratioVars, otherVars>>

\* lines 123-164: the conversion of the results to hip_datas
ConvertSegs ==
    /\ pc = "segs"
    /\ hip_datas' = landmarks_2_metrics_us(list_landmarks, measurements)
    /\ all_seg_rejection_reasons' =
           [k \in 1..Len(list_landmarks) |-> list_landmarks[k].rejection_reasons]
    /\ dev_metrics_custom' = NoDict
    /\ fm_i' = 1
    /\ pc' = "full_metrics"
    /\ UNCHANGED <<configVars, filterHistory, custom_metrics, study_metrics, graf_frame,
                   failure, ret, ratioVars, otherVars>>

\* lines 123-157: the conversion raises
ConvertRaises ==
    /\ pc = "segs"
    /\ failure' = "conversion"
    /\ ret' = OnProcessSegsError(entry)
    /\ pc' = "done"
    /\ UNCHANGED <<configVars, filterHistory, hip_datas, all_seg_rejection_reasons, fm_i,
                   custom_metrics, dev_metrics_custom, study_metrics, graf_frame, ratioVars, otherVars>>

\* lines 166-216: one pass of the loop over the full-metric functions
FullMetric ==
    /\ pc = "full_metrics"
    /\ fm_i <= Len(full_metric_functions)
    /\ LET h == full_metric_functions[fm_i]
           r == RunFullMetric(h)
       IN  IF r.raised
           THEN /\ failure' = "hook"
                /\ ret' = OnProcessSegsError(entry)
                /\ pc' = "done"
                /\ UNCHANGED <<fm_i, custom_metrics, dev_metrics_custom>>
           ELSE /\ custom_metrics' =
                       List(custom_metrics.items \o <<CustomMetric(entry, h.name, r.value)>>)
                /\ dev_metrics_custom' = MergeDevExtra(dev_metrics_custom, h.name, r.dev_extra)
                /\ fm_i' = fm_i + 1
                /\ UNCHANGED <<pc, failure, ret>>
    /\ UNCHANGED <<configVars, filterHistory, hip_datas, all_seg_rejection_reasons,
                   study_metrics, graf_frame, ratioVars, otherVars>>

ProcessSegsReturned == pc = "full_metrics" /\ fm_i > Len(full_metric_functions)

\* analyse_hip_3DUS line 382, analyse_hip_2DUS_sweep line 554
FilterFrames ==
    /\ ProcessSegsReturned
    /\ entry \in {"analyse_hip_3DUS", "analyse_hip_2DUS_sweep"}
    /\ LET r == handle_bad_frames(hip_datas, all_seg_rejection_reasons, hip_mode,
                                  allow_irregular_illiums)
       IN  /\ hip_datas' = r.hip_datas
           /\ bad_frame_reasons' = r.bad_frame_reasons
    /\ keep' = KeepList(hip_datas, hip_mode)
    /\ max_true_index' = IF hip_mode = "US2DSW" THEN max_true_index
                         ELSE WindowStart(pred_made(hip_datas))
    /\ pre_hip_datas' = hip_datas
    /\ pre_bad_frame_reasons' = bad_frame_reasons
    /\ calls' = calls + 1
    /\ pc' = "filtered"
    /\ UNCHANGED <<configVars, all_seg_rejection_reasons, fm_i, custom_metrics,
                   dev_metrics_custom, study_metrics, graf_frame, failure, ret, ratioVars, otherVars>>

\* find_graf_plane, lines 388 and 555
FindGrafPlane ==
    /\ pc = "filtered"
    /\ graf_frame' \in GrafCandidates(hip_datas) \cup {NoGraf}
    /\ pc' = "graf"
    /\ UNCHANGED <<configVars, filterHistory, hip_datas, all_seg_rejection_reasons, fm_i,
                   custom_metrics, dev_metrics_custom, study_metrics, failure, ret,
                   ratioVars, otherVars>>

\* analyse_hip_3DUS, lines 390-443
Finish3DUS ==
    /\ pc = "graf"
    /\ entry = "analyse_hip_3DUS"
    /\ study_metrics' = List(MergeMetrics(Aggregate3D, custom_metrics))
    /\ ret' = Returned(study_metrics')
    /\ pc' = "done"
    /\ UNCHANGED <<configVars, filterHistory, hip_datas, all_seg_rejection_reasons, fm_i,
                   custom_metrics, dev_metrics_custom, graf_frame, failure, ratioVars, otherVars>>

\* analyse_hip_2DUS, lines 486-501: hip = hip_datas[0]
Finish2DUS ==
    /\ ProcessSegsReturned
    /\ entry = "analyse_hip_2DUS"
    /\ hip_datas' = [hip_datas EXCEPT ![1].metrics = MergeMetrics(@, custom_metrics)]
    /\ ret' = Returned(List(hip_datas'[1].metrics))
    /\ pc' = "done"
    /\ UNCHANGED <<configVars, filterHistory, all_seg_rejection_reasons, fm_i,
                   custom_metrics, dev_metrics_custom, study_metrics, graf_frame, failure,
                   ratioVars, otherVars>>

\* analyse_hip_2DUS_sweep, lines 557-596: without a Graf hip the first frame
\* is returned with custom_metrics as its metrics (line 590, hip_datas[0]);
\* a collection without frames has no first frame
FinishSweep ==
    /\ pc = "graf"
    /\ entry = "analyse_hip_2DUS_sweep"
    /\ IF graf_frame = NoGraf /\ hip_datas = <<>>
       THEN /\ failure' = "index"
            /\ ret' = Raised
            /\ UNCHANGED hip_datas
       ELSE /\ IF graf_frame = NoGraf
               THEN /\ hip_datas' = [hip_datas EXCEPT ![1].metrics = custom_metrics.items]
                    /\ ret' = Returned(custom_metrics)
               ELSE /\ hip_datas' = [hip_datas EXCEPT
                                        ![graf_frame + 1].metrics = MergeMetrics(@, custom_metrics)]
                    /\ ret' = Returned(List(hip_datas'[graf_frame + 1].metrics))
            /\ UNCHANGED failure
    /\ pc' = "done"
    /\ UNCHANGED <<configVars, filterHistory, all_seg_rejection_reasons, fm_i,
                   custom_metrics, dev_metrics_custom, study_metrics, graf_frame,
                   ratioVars, otherVars>>

Next ==
    \/ Detect
    \/ DetectRaises
    \/ ConvertSegs
    \/ ConvertRaises
    \/ FullMetric
    \/ FilterFrames
    \/ FindGrafPlane
    \/ Finish3DUS
    \/ Finish2DUS
    \/ FinishSweep

Spec == Init /\ [][Next]_vars

\* analyse_hip_2DUS_sweep on every sequence of frames modes_func can return,
\* the one without frames included
InitSweep ==
    /\ pc = "start"
    /\ entry = "analyse_hip_2DUS_sweep"
    /\ hip_mode = ModeOf(entry)
    /\ list_landmarks \in SeqsUpTo(PipeKinds, PipeFrames)
    /\ measurements = {"alpha", "coverage"}
    /\ allow_irregular_illiums = FALSE
    /\ full_metric_functions \in SeqsUpTo(HookKinds, MaxHooks)
    /\ hip_datas = <<>>
    /\ all_seg_rejection_reasons = <<>>
    /\ bad_frame_reasons = NoReasons
    /\ calls = 0
    /\ pre_hip_datas = <<>>
    /\ pre_bad_frame_reasons = NoReasons
    /\ keep = <<>>
    /\ max_true_index = 0
    /\ fm_i = 0
    /\ custom_metrics = NoList
    /\ dev_metrics_custom = NoDict
    /\ study_metrics = NoList
    /\ graf_frame = NoGraf
    /\ failure = "none"
    /\ ret = Running
    /\ IdleRatio
    /\ IdleOther

NextSweep ==
    \/ Detect
    \/ DetectRaises
    \/ ConvertSegs
    \/ ConvertRaises
    \/ FullMetric
    \/ FilterFrames
    \/ FindGrafPlane
    \/ FinishSweep

SpecSweep == InitSweep /\ [][NextSweep]_vars

----------------------------------------------------------------------------
(* remove_outliers on studies of fifteen frames with seven predictions *)

\* the frames (0-based) of the synthetic study that carry a prediction
ScenarioTrue == {1, 2, 3, 4, 5, 8, 9}

ScenarioFrames == 0..14

\* the study whose frames with a prediction are those of T
StudyOf(T) ==
    [k \in 1..Cardinality(ScenarioFrames) |-> IF (k - 1) \in T THEN FrameGood ELSE FrameBlank]

InitScenario ==
    /\ pc = "landmarks"
    /\ list_landmarks \in
           {StudyOf(T) : T \in {S \in SUBSET ScenarioFrames :
                                    Cardinality(S) = Cardinality(ScenarioTrue)}}
    /\ measurements = {"alpha", "coverage"}
    /\ hip_mode = "US3D"
    /\ allow_irregular_illiums = FALSE
    /\ hip_datas = <<>>
    /\ all_seg_rejection_reasons = <<>>
    /\ bad_frame_reasons = NoReasons
    /\ calls = 0
    /\ pre_hip_datas = <<>>
    /\ pre_bad_frame_reasons = NoReasons
    /\ keep = <<>>
    /\ max_true_index = 0
    /\ graf_frame = NoGraf
    /\ IdlePipe
    /\ IdleRatio
    /\ IdleOther

SpecScenario == InitScenario /\ [][NextWindow]_vars

----------------------------------------------------------------------------
(* process_segs_us: the loop over config.hip.seg_preprocess_functions *)

MaxSegHooks == 2    \* registered segmentation-preprocess functions

\* The results list: which list object it is, and the marks written into it
\* in place.  The list modes_func returned is object 0; the list hook j
\* builds and returns is object j.
Results(id, marks) == [id |-> id, marks |-> marks]

\* An entry of seg_preprocess_functions: a callable, or a (name, callable)
\* tuple ("wellformed"; a tuple of any other length cannot be unpacked).
\* The callable accepts the argument counts in "accepts"; when called with
\* one of them it first writes its mark into the list it was given if
\* "mutates", and then does what "body" says.
SegHook(accepts, mutates, body) ==
    [wellformed |-> TRUE, accepts |-> accepts, mutates |-> mutates, body |-> body]

SegHookKinds ==
    {SegHook({2}, FALSE, "new"),
     SegHook({2, 3}, TRUE, "none"),
     SegHook({1}, FALSE, "new"),
     SegHook({3}, TRUE, "same"),
     SegHook({2}, FALSE, "none"),
     SegHook({2}, TRUE, "raise_Exception"),
     SegHook({2, 3}, TRUE, "raise_TypeError"),
     SegHook({}, FALSE, "new"),
     [SegHook({2}, FALSE, "new") EXCEPT !.wellformed = FALSE]}

\* lines 133-137: (results, config), (results,), (results, config, shape)
SegSignatures == <<2, 1, 3>>

\* lines 138-142: updated, the list as the calls left it, and whether an
\* exception other than TypeError ended the calls
RECURSIVE TrySegCalls(_, _, _, _)
TrySegCalls(h, j, res, sigs) ==
    IF sigs = <<>> THEN [results |-> res, updated |-> None, raised |-> FALSE]
    ELSE IF Head(sigs) \notin h.accepts THEN TrySegCalls(h, j, res, Tail(sigs))
    ELSE LET seen == IF h.mutates THEN Results(res.id, res.marks \cup {j}) ELSE res
         IN  IF h.body = "none" THEN [results |-> seen, updated |-> None, raised |-> FALSE]
             ELSE IF h.body = "same"
                  THEN [results |-> seen, updated |-> seen, raised |-> FALSE]
             ELSE IF h.body = "new"
                  THEN [results |-> seen, updated |-> Results(j, {}), raised |-> FALSE]
             ELSE IF h.body = "raise_TypeError" THEN TrySegCalls(h, j, seen, Tail(sigs))
             ELSE [results |-> seen, updated |-> None, raised |-> TRUE]

\* lines 143-144
KeepOrReplaceAlways(res, updated) == updated

KeepOrReplace(res, updated) == IF updated # None THEN updated ELSE res

\* line 145: the exceptions the handler around one hook catches
SegHandlerCatchesTypeError(exc) == exc = "TypeError"

SegHandlerCatches(exc) == exc \in {"TypeError", "ValueError", "Exception"}

\* lines 127-148, one pass: the results afterwards and the exception that
\* leaves the loop, if one does
RunSegHook(h, j, res) ==
    IF ~h.wellformed
    THEN [results |-> res,
          escaped |-> IF SegHandlerCatches("ValueError") THEN "none" ELSE "ValueError"]
    ELSE LET r == TrySegCalls(h, j, res, SegSignatures)
         IN  IF r.raised
             THEN [results |-> r.results,
                   escaped |-> IF SegHandlerCatches("Exception") THEN "none"
                               ELSE "Exception"]
             ELSE [results |-> KeepOrReplace(r.results, r.updated), escaped |-> "none"]

\* lines 122-123: modes_func and pre_process_segs_us have returned
InitSeg ==
    /\ pc = "seg_hooks"
    /\ seg_preprocess_functions \in SeqsUpTo(SegHookKinds, MaxSegHooks)
    /\ sp_i = 1
    /\ results = Results(0, {})
    /\ results_log = <<>>
    /\ segs_input = None
    /\ fm_results = <<>>
    /\ graf_frame = NoGraf
    /\ IdleFilter
    /\ IdlePipe
    /\ IdleRatio
    /\ IdleInput
    /\ IdleDraw
    /\ IdlePoly

\* lines 126-148, one pass of the loop
SegPreprocess ==
    /\ pc = "seg_hooks"
    /\ sp_i <= Len(seg_preprocess_functions)
    /\ LET r == RunSegHook(seg_preprocess_functions[sp_i], sp_i, results)
       IN  /\ results' = r.results
           /\ results_log' = Append(results_log, results)
           /\ IF r.escaped = "none"
              THEN sp_i' = sp_i + 1 /\ UNCHANGED <<pc, failure>>
              ELSE pc' = "done" /\ failure' = "seg_hook" /\ UNCHANGED sp_i
    /\ UNCHANGED <<seg_preprocess_functions, segs_input, fm_results, filterVars, entry,
                   full_metric_functions, fm_i, custom_metrics, dev_metrics_custom,
                   study_metrics, ret, graf_frame, ratioVars, inputVars, drawVars,
                   polyVars>>

\* lines 150-153: the results go on to segs_2_landmarks_us
SegsToLandmarks ==
    /\ pc = "seg_hooks"
    /\ sp_i > Len(seg_preprocess_functions)
    /\ segs_input' = results
    /\ pc' = "segs_2_landmarks"
    /\ UNCHANGED <<seg_preprocess_functions, sp_i, results, results_log, fm_results,
                   filterVars, pipeVars, graf_frame, ratioVars, inputVars, drawVars, polyVars>>

NextSeg == SegPreprocess \/ SegsToLandmarks

SpecSeg == InitSeg /\ [][NextSeg]_vars

\* process_segs_us with both of its hook loops
RunHookKinds ==
    {Hook("m1", 3, "pair", 7, Dict1),
     Hook("m2", 1, "scalar", 41, NoDict),
     Hook("m2", 3, "raise_TypeError", 5, NoDict)}

InitRun ==
    /\ pc = "seg_hooks"
    /\ seg_preprocess_functions \in SeqsUpTo(SegHookKinds, MaxSegHooks)
    /\ sp_i = 1
    /\ results = Results(0, {})
    /\ results_log = <<>>
    /\ segs_input = None
    /\ fm_results = <<>>
    /\ entry = "analyse_hip_3DUS"
    /\ full_metric_functions \in SeqsUpTo(RunHookKinds, MaxHooks)
    /\ fm_i = 1
    /\ custom_metrics = NoList
    /\ dev_metrics_custom = NoDict
    /\ study_metrics = NoList
    /\ failure = "none"
    /\ ret = Running
    /\ graf_frame = NoGraf
    /\ IdleFilter
    /\ IdleRatio
    /\ IdleInput
    /\ IdleDraw
    /\ IdlePoly

\* line 149: copy.deepcopy(results), another object with the same content
PassedResultsCopy(res) == Results(0 - 1 - res.id, res.marks)

\* line 171: the results in the argument tuple (hip_datas, results, config)
PassedResults(res) == res

\* lines 166-216, one pass of the loop, with the results the function is
\* given when it takes the three arguments
FullMetricOnResults ==
    /\ pc = "segs_2_landmarks"
    /\ fm_i <= Len(full_metric_functions)
    /\ LET h == full_metric_functions[fm_i]
           r == RunFullMetric(h)
       IN  /\ fm_results' =
                  Append(fm_results, IF h.arity = 3 THEN PassedResults(results) ELSE None)
           /\ IF r.raised
              THEN /\ failure' = "hook"
                   /\ pc' = "done"
                   /\ UNCHANGED <<fm_i, custom_metrics, dev_metrics_custom>>
              ELSE /\ custom_metrics' =
                          List(custom_metrics.items \o <<CustomMetric(entry, h.name, r.value)>>)
                   /\ dev_metrics_custom' =
                          MergeDevExtra(dev_metrics_custom, h.name, r.dev_extra)
                   /\ fm_i' = fm_i + 1
                   /\ UNCHANGED <<pc, failure>>
    /\ UNCHANGED <<seg_preprocess_functions, sp_i, results, results_log, segs_input,
                   filterVars, entry, full_metric_functions, study_metrics, ret,
                   graf_frame, ratioVars, inputVars, drawVars, polyVars>>

NextRun == SegPreprocess \/ SegsToLandmarks \/ FullMetricOnResults

SpecRun == InitRun /\ [][NextRun]_vars

----------------------------------------------------------------------------
(* draw_hips_xray: base drawing, post-draw hooks, fallback text, image *)

MaxDrawFrames == 2  \* frames given to draw_hips_xray
MaxDrawHooks == 2   \* registered post-draw functions

\* An Overlay: which object it is and the operations drawn on it, in order.
\* The overlay line 60 creates is object 0; the one hook j builds is object j.
Overlay(id, ops) == [id |-> id, ops |-> ops]

\* lines 60-69
BaseOverlay == Overlay(0, <<"landmarks", "ace", "wiberg", "ihdi", "tonnis">>)

\* A post-draw function, by what func(final_hip, overlay, config) does:
\*   "draw_return"  draws on the overlay it was given and returns it
\*   "draw_none"    draws on it and returns None
\*   "new"          returns an Overlay of its own
\*   "other"        returns something that is not an Overlay
\*   "raise"        raises before drawing anything
\*   "draw_raise"   draws on the overlay it was given, then raises
PostDrawKinds == {"draw_return", "draw_none", "new", "other", "raise", "draw_raise"}

\* overlay.draw_text(...) and the like: the object stays, the drawing grows
DrawOn(ov, op) == Overlay(ov.id, Append(ov.ops, op))

\* line 85: the exceptions the handler around one hook catches
PostDrawCatches(exc) == exc \in {"Exception"}

\* lines 81-86: the overlay afterwards and the exception that leaves the loop
RunPostDraw(body, j, ov) ==
    LET drawn == DrawOn(ov, "hook")
        escaped == IF PostDrawCatches("Exception") THEN "none" ELSE "Exception"
    IN  IF body = "draw_return" THEN [overlay |-> drawn, escaped |-> "none"]
        ELSE IF body = "draw_none" THEN [overlay |-> drawn, escaped |-> "none"]
        ELSE IF body = "new" THEN [overlay |-> Overlay(j, <<"hook">>), escaped |-> "none"]
        ELSE IF body = "other" THEN [overlay |-> ov, escaped |-> "none"]
        ELSE IF body = "raise" THEN [overlay |-> ov, escaped |-> escaped]
        ELSE [overlay |-> drawn, escaped |-> escaped]

\* A registered per-frame metric: its name and what final_hip.get_metric(name)
\* gives (-1 for None).
PerFrameKinds ==
    {[name |-> "count", val |-> 3], [name |-> "zero", val |-> 0],
     [name |-> "missing", val |-> -1]}

\* lines 90-109: the text drawn for the per-frame metrics when no post-draw
\* function is registered
RECURSIVE FallbackText(_, _)
FallbackText(ov, pfs) ==
    IF pfs = <<>> THEN ov
    ELSE FallbackText(IF Head(pfs).val \notin {-1, 0} THEN DrawOn(ov, Head(pfs).name)
                      ELSE ov,
                      Tail(pfs))

Fallback(ov, pdfs, pfs) == IF pdfs = <<>> /\ pfs # <<>> THEN FallbackText(ov, pfs) ELSE ov

InitDraw ==
    /\ pc = "draw"
    /\ draw_n \in 1..MaxDrawFrames
    /\ draw_i = 1
    /\ post_draw_functions \in SeqsUpTo(PostDrawKinds, MaxDrawHooks)
    /\ per_frame_metric_functions \in SeqsUpTo(PerFrameKinds, 1)
    /\ pd_i = 0
    /\ overlay = None
    /\ overlay_log = <<>>
    /\ image_arrays = <<>>
    /\ graf_frame = NoGraf
    /\ IdleFilter
    /\ IdlePipe
    /\ IdleRatio
    /\ IdleInput
    /\ IdleSeg
    /\ IdlePoly

\* lines 53-69: the next frame's overlay with the built-in drawings
DrawBase ==
    /\ pc = "draw"
    /\ draw_i <= draw_n
    /\ overlay' = BaseOverlay
    /\ overlay_log' = <<>>
    /\ pd_i' = 1
    /\ pc' = "post_draw"
    /\ UNCHANGED <<draw_n, draw_i, post_draw_functions, per_frame_metric_functions,
                   image_arrays, filterVars, pipeVars, graf_frame, ratioVars, inputVars,
                   segVars, polyVars>>

\* lines 73-86, one pass of the loop over the post-draw functions
PostDraw ==
    /\ pc = "post_draw"
    /\ pd_i <= Len(post_draw_functions)
    /\ LET r == RunPostDraw(post_draw_functions[pd_i], pd_i, overlay)
       IN  /\ overlay' = r.overlay
           /\ overlay_log' = Append(overlay_log, overlay)
           /\ IF r.escaped = "none"
              THEN pd_i' = pd_i + 1 /\ UNCHANGED <<pc, failure>>
              ELSE pc' = "done" /\ failure' = "post_draw" /\ UNCHANGED pd_i
    /\ UNCHANGED <<draw_n, draw_i, post_draw_functions, per_frame_metric_functions,
                   image_arrays, filterVars, entry, full_metric_functions, fm_i,
                   custom_metrics, dev_metrics_custom, study_metrics, ret, graf_frame,
                   ratioVars, inputVars, segVars, polyVars>>

\* lines 88-114: fallback text, overlay.apply_to_image, image_arrays.append
ApplyToImage ==
    /\ pc = "post_draw"
    /\ pd_i > Len(post_draw_functions)
    /\ overlay' = Fallback(overlay, post_draw_functions, per_frame_metric_functions)
    /\ image_arrays' = Append(image_arrays, overlay'.ops)
    /\ draw_i' = draw_i + 1
    /\ pc' = IF draw_i = draw_n THEN "drawn" ELSE "draw"
    /\ UNCHANGED <<draw_n, post_draw_functions, per_frame_metric_functions, pd_i,
                   overlay_log, filterVars, pipeVars, graf_frame, ratioVars, inputVars,
                   segVars, polyVars>>

NextDraw == DrawBase \/ PostDraw \/ ApplyToImage

SpecDraw == InitDraw /\ [][NextDraw]_vars

----------------------------------------------------------------------------
(* The entry points' checks of their input, and retuve_run *)

\* what the image argument is: a PIL image, a DICOM dataset, a list of PIL
\* images, or anything else (a path, an array)
ImageTypes == {"PIL", "DICOM", "list", "other"}

OperationTypes == {"SEG", "LANDMARK"}

\* retuve_run's hip_mode argument; "OTHER" is a value that is none of the four
RunHipModes == {"XRAY", "US3D", "US2D", "US2DSW", "OTHER"}

DirectEntries == Entries \cup {"analyse_hip_xray_2D"}

\* config.batch.hip_mode of the configuration the call is made with
ConfigMode(e, run_mode) ==
    IF run_mode # "direct" THEN run_mode
    ELSE IF e = "analyse_hip_xray_2D" THEN "XRAY" ELSE ModeOf(e)

InitInput ==
    /\ \/ pc = "call" /\ run_hip_mode = "direct" /\ entry \in DirectEntries
          /\ image_type \in ImageTypes
       \/ pc = "retuve_run" /\ run_hip_mode \in RunHipModes /\ entry = "retuve_run"
          /\ image_type \in {"DICOM", "other"}
    /\ operation_type \in OperationTypes
    /\ hip_mode = ConfigMode(entry, run_hip_mode)
    /\ list_landmarks \in {<<FrameGood>>, <<FrameGood, FrameBlank>>}
    /\ measurements = {"alpha", "coverage"}
    /\ allow_irregular_illiums = FALSE
    /\ full_metric_functions \in {<<>>, <<Hook("m1", 3, "scalar", 43, NoDict)>>}
    /\ hip_datas = <<>>
    /\ all_seg_rejection_reasons = <<>>
    /\ bad_frame_reasons = NoReasons
    /\ calls = 0
    /\ pre_hip_datas = <<>>
    /\ pre_bad_frame_reasons = NoReasons
    /\ keep = <<>>
    /\ max_true_index = 0
    /\ fm_i = 0
    /\ custom_metrics = NoList
    /\ dev_metrics_custom = NoDict
    /\ study_metrics = NoList
    /\ graf_frame = NoGraf
    /\ failure = "none"
    /\ ret = Running
    /\ IdleRatio
    /\ IdleSeg
    /\ IdleDraw
    /\ IdlePoly

inputFrame == <<list_landmarks, measurements, hip_mode, allow_irregular_illiums,
                full_metric_functions, filterHistory, hip_datas,
                all_seg_rejection_reasons, fm_i, custom_metrics, dev_metrics_custom,
                study_metrics, graf_frame, ratioVars, segVars, drawVars, polyVars>>

RaisedError(kind) ==
    /\ failure' = kind
    /\ ret' = Raised
    /\ pc' = "done"

\* retuve_run, lines 645-703: the file as the entry point receives it, then
\* the entry point of the hip mode, or ValueError
RetuveRun ==
    /\ pc = "retuve_run"
    /\ IF run_hip_mode = "XRAY"
       THEN /\ entry' = "analyse_hip_xray_2D"
            /\ image_type' = IF image_type = "DICOM" THEN "DICOM" ELSE "PIL"
            /\ pc' = "call"
            /\ UNCHANGED <<failure, ret>>
       ELSE IF run_hip_mode = "US3D"
       THEN /\ entry' = "analyse_hip_3DUS"
            /\ pc' = "call"
            /\ UNCHANGED <<image_type, failure, ret>>
       ELSE IF run_hip_mode = "US2D"
       THEN /\ entry' = "analyse_hip_2DUS"
            /\ image_type' = "PIL"
            /\ pc' = "call"
            /\ UNCHANGED <<failure, ret>>
       ELSE IF run_hip_mode = "US2DSW"
       THEN /\ entry' = "analyse_hip_2DUS_sweep"
            /\ pc' = "call"
            /\ UNCHANGED <<image_type, failure, ret>>
       ELSE /\ RaisedError("ValueError")
            /\ UNCHANGED <<entry, image_type>>
    /\ UNCHANGED <<run_hip_mode, operation_type, inputFrame>>

\* analyse_hip_xray_2D, lines 250-255
CheckXray ==
    /\ pc = "call"
    /\ entry = "analyse_hip_xray_2D"
    /\ IF image_type \in {"DICOM", "PIL"}
       THEN pc' = "xray" /\ UNCHANGED <<failure, ret>>
       ELSE RaisedError("ValueError")
    /\ UNCHANGED <<entry, inputVars, inputFrame>>

\* analyse_hip_xray_2D, lines 257-330: the X-ray pipeline
AnalyseXray ==
    /\ pc = "xray"
    /\ ret' = Returned(List(<<>>))
    /\ pc' = "done"
    /\ UNCHANGED <<entry, failure, inputVars, inputFrame>>

\* analyse_hip_2DUS, lines 466-486: neither branch binds data for any other
\* image, and nothing binds hip_datas for any other operation type; the
\* UnboundLocalError of data is raised inside the try, that of hip_datas
\* after it
Check2DUS ==
    /\ pc = "call"
    /\ entry = "analyse_hip_2DUS"
    /\ IF operation_type # "SEG" THEN RaisedError("UnboundLocalError")
       ELSE IF image_type \in {"DICOM", "PIL"}
       THEN pc' = "start" /\ UNCHANGED <<failure, ret>>
       ELSE /\ failure' = "UnboundLocalError"
            /\ ret' = OnProcessSegsError(entry)
            /\ pc' = "done"
    /\ UNCHANGED <<entry, inputVars, inputFrame>>

\* analyse_hip_3DUS, lines 364-380, and analyse_hip_2DUS_sweep, lines 532-552
CheckVolume ==
    /\ pc = "call"
    /\ entry \in {"analyse_hip_3DUS", "analyse_hip_2DUS_sweep"}
    /\ image_type' = IF image_type = "list" THEN "DICOM" ELSE image_type
    /\ IF operation_type = "SEG"
       THEN pc' = "start" /\ UNCHANGED <<failure, ret>>
       ELSE /\ failure' = "NotImplementedError"
            /\ ret' = OnProcessSegsError(entry)
            /\ pc' = "done"
    /\ UNCHANGED <<entry, run_hip_mode, operation_type, inputFrame>>

\* retuve_run, lines 656-701: the RetuveResult built from what the entry
\* point returned; hip.json_dump fails on a hip that is None
RunResult ==
    /\ pc = "done"
    /\ run_hip_mode # "direct"
    /\ ret.status = "returned"
    /\ IF ret.all_none /\ run_hip_mode \in {"XRAY", "US2D"}
       THEN /\ failure' = "AttributeError"
            /\ ret' = Raised
       ELSE /\ ret' = [ret EXCEPT !.status = "result"]
            /\ UNCHANGED failure
    /\ pc' = "run_done"
    /\ UNCHANGED <<entry, inputVars, inputFrame>>

NextInput == RetuveRun \/ CheckXray \/ AnalyseXray \/ Check2DUS \/ CheckVolume \/ RunResult \/ Next

SpecInput == InitInput /\ [][NextInput]_vars

----------------------------------------------------------------------------
(* _polyfit_replace_apex *)

MaxPolyFrames == 4  \* frames of the list given to _polyfit_replace_apex

\* the defaults of the parameters degree and max_pixel_err
Degree == 2

MaxPixelErr == 8

\* a coordinate that is None inside an apex tuple
NoCoord == -1

PolyPoint == <<1, 1>>

\* Entries of the list: None, landmarks without an apex, landmarks whose apex
\* has no x, and landmarks with an apex; the last kind has all six points.
PolyKinds ==
    {NoLandmarks,
     LandmarksUS(PLeft, PRightFar, None),
     LandmarksUS(PLeft, PRightFar, <<NoCoord, 10>>),
     LandmarksUS(PLeft, PRightFar, <<10, 10>>),
     LandmarksUS(PLeft, PRightFar, <<10, 30>>),
     [LandmarksUS(PLeft, PRightFar, <<12, 10>>) EXCEPT
         !.point_D = PolyPoint, !.point_d = PolyPoint, !.mid_cov_point = PolyPoint]}

\* lines 52-60: the 0-based indices of the frames with a usable apex
ApexIdxs(lms) ==
    {i \in 0..(Len(lms) - 1) :
        /\ lms[i + 1].set
        /\ lms[i + 1].apex # None
        /\ lms[i + 1].apex[1] # NoCoord
        /\ lms[i + 1].apex[2] # NoCoord}

RECURSIVE Pow(_, _)
Pow(t, k) == IF k = 0 THEN 1 ELSE t * Pow(t, k - 1)

RECURSIVE SetSum(_, _)
SetSum(S, f) ==
    IF S = {} THEN 0
    ELSE LET t == CHOOSE u \in S : TRUE IN f[t] + SetSum(S \ {t}, f)

Det3(a, b, c, d, e, f, g, h, i) ==
    a * (e * i - f * h) - b * (d * i - f * g) + c * (d * h - e * g)

\* np.polyfit(t, v, deg=2) over the frames of I, v[t] being the coordinate of
\* frame t: the least-squares parabola, as the numerators of its three
\* coefficients over the determinant of the normal equations
PolyFit(I, v) ==
    LET S(k) == SetSum(I, [t \in I |-> Pow(t, k)])
        R(k) == SetSum(I, [t \in I |-> Pow(t, k) * v[t]])
    IN  [den |-> Det3(S(0), S(1), S(2), S(1), S(2), S(3), S(2), S(3), S(4)),
         c0 |-> Det3(R(0), S(1), S(2), R(1), S(2), S(3), R(2), S(3), S(4)),
         c1 |-> Det3(S(0), R(0), S(2), S(1), R(1), S(3), S(2), R(2), S(4)),
         c2 |-> Det3(S(0), S(1), R(0), S(1), S(2), R(1), S(2), S(3), R(2))]

\* np.poly1d: the numerator of the fitted value at frame i
PolyAt(p, i) == p.c0 + p.c1 * i + p.c2 * i * i

\* lines 84-91, without the three points that are not landmarks of the line
ReplaceApexThreeFields(lm, apex) == LandmarksUS(lm.left, lm.right, apex)

\* lines 84-91: a new LandmarksUS with the other five fields copied
ReplaceApex(lm, apex) == [lm EXCEPT !.apex = apex]

\* lines 62-63
EnoughApex(lms) ==
    Cardinality(ApexIdxs(lms)) >= (IF Degree + 1 > 3 THEN Degree + 1 ELSE 3)

\* _polyfit_replace_apex(list_landmarks): the list as the call leaves it;
\* raises tells whether np.polyfit raises
_polyfit_replace_apex(lms, raises) ==
    IF ~EnoughApex(lms) \/ raises THEN lms
    ELSE LET I == ApexIdxs(lms)
             px == PolyFit(I, [t \in I |-> lms[t + 1].apex[1]])
             py == PolyFit(I, [t \in I |-> lms[t + 1].apex[2]])
             den == px.den
             Outlier(i) ==
                 LET dx == lms[i + 1].apex[1] * den - PolyAt(px, i)
                     dy == lms[i + 1].apex[2] * den - PolyAt(py, i)
                     lim == MaxPixelErr * den
                 IN  \/ Abs(dx) > lim
                     \/ Abs(dy) > lim
                     \/ dx * dx + dy * dy > lim * lim
         IN  [k \in 1..Len(lms) |->
                 IF (k - 1) \in I /\ Outlier(k - 1)
                 THEN ReplaceApex(lms[k], <<RoundHalfEven(PolyAt(px, k - 1), den),
                                            RoundHalfEven(PolyAt(py, k - 1), den)>>)
                 ELSE lms[k]]

InitPoly ==
    /\ pc = "polyfit"
    /\ poly_landmarks \in SeqsUpTo(PolyKinds, MaxPolyFrames)
    /\ poly_before = <<>>
    /\ fit_raised = FALSE
    /\ graf_frame = NoGraf
    /\ IdleFilter
    /\ IdlePipe
    /\ IdleRatio
    /\ IdleInput
    /\ IdleSeg
    /\ IdleDraw

\* landmarks_2_metrics_us, lines 116-117
PolyfitReplaceApex ==
    /\ pc = "polyfit"
    /\ \E raises \in BOOLEAN :
           /\ poly_landmarks' = _polyfit_replace_apex(poly_landmarks, raises)
           /\ fit_raised' = (raises /\ EnoughApex(poly_landmarks))
    /\ poly_before' = poly_landmarks
    /\ pc' = "polyfit_done"
    /\ UNCHANGED <<filterVars, pipeVars, graf_frame, ratioVars, inputVars, segVars,
                   drawVars>>

NextPoly == PolyfitReplaceApex

SpecPoly == InitPoly /\ [][NextPoly]_vars

\* A synthetic apex series: SeriesLen frames on a line, one of them moved off
\* it by dev pixels in y
SeriesLen == 5

SeriesDevs == {9, 12, 20, 24}

Series(sx, sy, j, dev) ==
    [k \in 1..SeriesLen |->
        LandmarksUS(PLeft, PRightFar,
                    <<10 + sx * (k - 1),
                      10 + sy * (k - 1) + (IF k - 1 = j THEN dev ELSE 0)>>)]

InitSeries ==
    /\ pc = "polyfit"
    /\ \E sx \in 0..1, sy \in 0..2, j \in 0..(SeriesLen - 1), dev \in SeriesDevs :
           poly_landmarks = Series(sx, sy, j, dev)
    /\ poly_before = <<>>
    /\ fit_raised = FALSE
    /\ graf_frame = NoGraf
    /\ IdleFilter
    /\ IdlePipe
    /\ IdleRatio
    /\ IdleInput
    /\ IdleSeg
    /\ IdleDraw

SpecSeries == InitSeries /\ [][NextPoly]_vars

----------------
(* Claims about the converter and the bad-frame filter *)

Keys(f) == DOMAIN f

\* C1: the collection has one frame per landmarks entry, frame i carrying
\* frame_no i, after the conversion and after every application of
\* handle_bad_frames, placeholders included.
C1_LengthInvariant ==
    pc = "hip_datas" =>
        /\ Len(hip_datas) = Len(list_landmarks)
        /\ \A k \in 1..Len(hip_datas) : hip_datas[k].frame_no = k - 1

C1_Witness ==
    /\ pc = "hip_datas"
    /\ calls >= 2
    /\ Len(list_landmarks) >= 3
    /\ \E k \in 2..Len(hip_datas) : IsEmptyHip(hip_datas[k]) /\ list_landmarks[k].has_pred
    /\ \E k \in 1..Len(hip_datas) : ~IsEmptyHip(hip_datas[k])

\* number of true values of the mask pm in the window of width w that starts
\* at the 0-based index j
C2_InWindow(pm, j, w) == Cardinality({k \in 1..Len(pm) : pm[k] /\ j < k /\ k <= j + w})

\* C2: the window of width T that remove_outliers chooses holds the largest
\* number of true values any window of width T holds, and no window with a
\* lower start holds as many.
C2_WindowOptimal ==
    pc = "keep" =>
        LET pm == pred_made(hip_datas)
            T == Cardinality({k \in 1..Len(pm) : pm[k]})
        IN  /\ max_true_index \in 0..(Len(pm) - T)
            /\ \A j \in 0..(Len(pm) - T) :
                   C2_InWindow(pm, j, T) <= C2_InWindow(pm, max_true_index, T)
            /\ \A j \in 0..(max_true_index - 1) :
                   C2_InWindow(pm, j, T) < C2_InWindow(pm, max_true_index, T)

\* a mask where two windows tie for the maximum and the chosen one is not at 0
C2_Witness ==
    /\ pc = "keep"
    /\ max_true_index > 0
    /\ LET pm == pred_made(hip_datas)
           T == Cardinality({k \in 1..Len(pm) : pm[k]})
       IN  /\ C2_InWindow(pm, max_true_index, T) < T
           /\ \E j \in (max_true_index + 1)..(Len(pm) - T) :
                  C2_InWindow(pm, j, T) = C2_InWindow(pm, max_true_index, T)

\* C3 as stated: a second application of handle_bad_frames changes neither
\* the frames nor bad_frame_reasons.
C3_Idempotent ==
    (pc = "hip_datas" /\ calls >= 2) =>
        /\ hip_datas = pre_hip_datas
        /\ bad_frame_reasons = pre_bad_frame_reasons

\* C3 as amended: a further application never restores or alters a frame (an
\* empty frame stays empty, any other frame is unchanged or emptied), in sweep
\* mode it leaves every frame unchanged and the same indices carry a reason.
C3_Reapplied ==
    (pc = "hip_datas" /\ calls >= 2) =>
        /\ Len(hip_datas) = Len(pre_hip_datas)
        /\ \A k \in 1..Len(hip_datas) :
               /\ IsEmptyHip(pre_hip_datas[k]) => hip_datas[k] = pre_hip_datas[k]
               /\ \/ hip_datas[k] = pre_hip_datas[k]
                  \/ hip_datas[k] = EmptyHip(pre_hip_datas[k].frame_no)
        /\ hip_mode = "US2DSW" =>
               /\ hip_datas = pre_hip_datas
               /\ Keys(bad_frame_reasons) = Keys(pre_bad_frame_reasons)

\* a second application in sweep mode over a study with a kept frame, an
\* emptied frame and a recorded reason
C3_Witness ==
    /\ pc = "hip_datas"
    /\ calls >= 2
    /\ hip_mode = "US2DSW"
    /\ \E k \in 1..Len(hip_datas) : ~IsEmptyHip(hip_datas[k])
    /\ \E k \in 1..Len(hip_datas) : IsEmptyHip(hip_datas[k])
    /\ Keys(bad_frame_reasons) # {}

C4_Rules(hip, allow) ==
    <<NoMetrics(hip), ~hip.landmarks.set, bad_alpha(hip),
      ~left_apex_line_flat(hip) /\ ~allow, bad_coverage(hip),
      apex_right_points_too_close(hip)>>

C4_Names ==
    <<"No Metrics", "No Landmarks", "Alpha Angle Non-Sensical", "Ilium Line not Flat",
      "Coverage Value Non-Sensical", "Apex and Right Too Close">>

C4_Failing(hip, allow) == {j \in 1..6 : C4_Rules(hip, allow)[j]}

C4_First(S) == CHOOSE j \in S : \A m \in S : j <= m

\* C4: a keep-candidate frame that fails a validity rule is replaced by an
\* empty placeholder and gets the reason of the first failing rule in the
\* order No Metrics, No Landmarks, Alpha, Ilium (not with irregular iliums
\* allowed), Coverage, Apex/Right; one that fails none is left as it was,
\* without a reason.
C4_RuleOrder ==
    (pc = "hip_datas" /\ calls >= 1) =>
        \A k \in 1..Len(pre_hip_datas) :
            keep[k] =>
                LET failing == C4_Failing(pre_hip_datas[k], allow_irregular_illiums)
                IN  IF failing = {}
                    THEN /\ hip_datas[k] = pre_hip_datas[k]
                         /\ (k - 1) \notin Keys(bad_frame_reasons)
                    ELSE /\ hip_datas[k] = EmptyHip(k - 1)
                         /\ (k - 1) \in Keys(bad_frame_reasons)
                         /\ bad_frame_reasons[k - 1] = C4_Names[C4_First(failing)]

\* one call that leaves a candidate alone, rejects one for its alpha angle
\* although its ilium line is steep too, and rejects one for its coverage
C4_Witness ==
    /\ pc = "hip_datas"
    /\ calls = 1
    /\ \E k \in 1..Len(hip_datas) :
           keep[k] /\ hip_datas[k] = pre_hip_datas[k] /\ ~IsEmptyHip(hip_datas[k])
    /\ \E k \in 1..Len(hip_datas) :
           /\ keep[k]
           /\ ~left_apex_line_flat(pre_hip_datas[k])
           /\ (k - 1) \in Keys(bad_frame_reasons)
           /\ bad_frame_reasons[k - 1] = "Alpha Angle Non-Sensical"
    /\ \E k \in 1..Len(hip_datas) :
           /\ keep[k]
           /\ (k - 1) \in Keys(bad_frame_reasons)
           /\ bad_frame_reasons[k - 1] = "Coverage Value Non-Sensical"

C5_Expected(rejection_reasons) ==
    IF rejection_reasons = <<>> THEN "Not Enough Data" ELSE Join(rejection_reasons)

\* C5 as stated: in windowed and in sweep mode a frame emptied for failing
\* the keep test has a reason, "Not Enough Data" or the upstream reasons.
C5_EveryRejectedHasReason ==
    (pc = "hip_datas" /\ calls >= 1) =>
        \A k \in 1..Len(pre_hip_datas) :
            ~keep[k] =>
                /\ (k - 1) \in Keys(bad_frame_reasons)
                /\ bad_frame_reasons[k - 1] = C5_Expected(all_seg_rejection_reasons[k])

\* C5 as amended: in sweep mode such a frame has that reason; in windowed
\* mode it is emptied without any reason being recorded.
C5_SweepReasons ==
    (pc = "hip_datas" /\ calls >= 1) =>
        \A k \in 1..Len(pre_hip_datas) :
            ~keep[k] =>
                /\ hip_datas[k] = EmptyHip(k - 1)
                /\ IF hip_mode = "US2DSW"
                   THEN /\ (k - 1) \in Keys(bad_frame_reasons)
                        /\ bad_frame_reasons[k - 1] =
                               C5_Expected(all_seg_rejection_reasons[k])
                   ELSE (k - 1) \notin Keys(bad_frame_reasons)

\* a sweep-mode call that records upstream reasons for one frame and
\* "Not Enough Data" for another
C5_Witness ==
    /\ pc = "hip_datas"
    /\ calls = 1
    /\ hip_mode = "US2DSW"
    /\ \E k \in 1..Len(hip_datas) :
           /\ ~keep[k]
           /\ (k - 1) \in Keys(bad_frame_reasons)
           /\ bad_frame_reasons[k - 1] = "no ilium no femoral head"
    /\ \E k \in 1..Len(hip_datas) :
           /\ ~keep[k]
           /\ (k - 1) \in Keys(bad_frame_reasons)
           /\ bad_frame_reasons[k - 1] = "Not Enough Data"

----------------------------------------------------------------------------
(* Claims about the centering ratio *)

C10_Sentinel ==
    [ratio |-> [kind |-> "finite", hundredths |-> 0],
     points |-> <<None, None, None>>, read_mesh |-> FALSE]

\* C10: with graf_frame None get_centering_ratio returns (0, (None, None,
\* None)) whatever the mesh and the sphere are and does not read the mesh; a
\* graf_frame of 0 is a frame index and yields three points, not the sentinel.
C10_SentinelIffNoGraf ==
    pc = "ratio_done" =>
        /\ graf_frame = NoGraf => ratio_result = C10_Sentinel
        /\ graf_frame = 0 =>
               /\ ratio_result.read_mesh
               /\ \A k \in 1..3 : ratio_result.points[k] # None

\* the sentinel is returned for a mesh of several vertices
C10_Witness ==
    /\ pc = "ratio_done"
    /\ graf_frame = NoGraf
    /\ Cardinality(illium_mesh) >= 3
    /\ ratio_result.points = <<None, None, None>>

----------------------------------------------------------------------------
(* Claims about the full-metric hooks and the entry points *)

\* the first of the three signatures the callable accepts, 0 if none
C6_FirstAccepted(h) == IF h.arity \in 1..3 THEN h.arity ELSE 0

\* hook j is the one whose exception left process_segs_us
C6_Propagated(j) == failure = "hook" /\ fm_i = j

\* C6: each full-metric callable is tried with three, two and one argument
\* and the result of the first call that is not a call-arity mismatch is
\* recorded: a callable that accepts only (hip_datas) and returns a scalar
\* has that scalar recorded under its name, as a three-argument one has.
C6_ArityFallback ==
    \A j \in 1..Len(full_metric_functions) :
        LET h == full_metric_functions[j]
        IN  (C6_FirstAccepted(h) # 0 /\ h.body = "scalar") =>
                /\ ~C6_Propagated(j)
                /\ j <= Len(custom_metrics.items) =>
                       /\ custom_metrics.items[j].name = h.name
                       /\ custom_metrics.items[j].value = h.value

\* the hook raises, in the call that fits its parameters, something that
\* is not a call-arity mismatch
C7_RaisesInBody(h) ==
    /\ h.arity \in 1..3
    /\ h.body \in {"raise_Exception", "raise_TypeError", "raise_TypeError_positional"}

\* C7: a hook that raises anything but a call-arity mismatch does not end
\* process_segs_us: its metric is recorded with value 0 and the hooks after
\* it are run.
C7_HookFailureContained ==
    \A j \in 1..Len(full_metric_functions) :
        C7_RaisesInBody(full_metric_functions[j]) =>
            /\ ~(failure = "hook" /\ fm_i = j)
            /\ j <= Len(custom_metrics.items) => custom_metrics.items[j].value = 0
            /\ (pc = "full_metrics" /\ fm_i > j) => Len(custom_metrics.items) >= j

\* C8: in each of the three entry points an exception of the detection
\* function or of the conversion is not propagated; the entry point returns
\* a tuple of None.
C8_ErrorsBecomeAllNone ==
    failure \in {"detection", "conversion"} => ret = AllNone

\* the built-in metrics of the returned object, before any hook's are merged
C9_Builtin ==
    IF entry = "analyse_hip_3DUS" THEN Aggregate3D
    ELSE IF entry = "analyse_hip_2DUS"
         THEN landmarks_2_metrics_us(list_landmarks, measurements)[1].metrics
    ELSE landmarks_2_metrics_us(list_landmarks, measurements)[graf_frame + 1].metrics

\* C9: when an entry point completes and hooks are registered, the metrics
\* it returns (the study's in 3D mode, the frame's in single-frame mode, the
\* Graf hip's in sweep mode when a Graf frame was chosen) are the built-in
\* metrics followed by one custom metric per registered hook, in
\* registration order.
C9_MergedMetrics ==
    (/\ pc = "done"
     /\ failure = "none"
     /\ Len(full_metric_functions) >= 1
     /\ entry = "analyse_hip_2DUS_sweep" => graf_frame # NoGraf) =>
        LET m == ret.metrics.items
            b == C9_Builtin
        IN  /\ ret.status = "returned"
            /\ ret.metrics.set
            /\ Len(m) = Len(b) + Len(full_metric_functions)
            /\ SubSeq(m, 1, Len(b)) = b
            /\ \A j \in 1..Len(full_metric_functions) :
                   /\ m[Len(b) + j] = custom_metrics.items[j]
                   /\ m[Len(b) + j].name = full_metric_functions[j].name

\* a sweep with a Graf frame returns its built-in metrics and then the
\* metrics of two hooks of different names
C9_Witness ==
    /\ pc = "done"
    /\ failure = "none"
    /\ entry = "analyse_hip_2DUS_sweep"
    /\ graf_frame # NoGraf
    /\ Len(full_metric_functions) = 2
    /\ full_metric_functions[1].name # full_metric_functions[2].name
    /\ Len(ret.metrics.items) > 2
    /\ ret.metrics.items[Len(ret.metrics.items)].name = full_metric_functions[2].name

----------------------------------------------------------------------------
(* Claims about the value of the centering ratio *)

\* the z coordinates of the femoral-head sphere
C11_SphereZ == femoral_head_sphere[3]

\* C11: with a Graf frame set and a mesh of some depth, the ratio returned is
\* (mean z of the sphere - Graf frame index) / (largest z - smallest z of the
\* mesh vertices) to the nearest hundredth: the denominator is the largest z
\* (posterior) minus the smallest (anterior), so the ratio has the sign of
\* the numerator.
C11_RatioValue ==
    (pc = "ratio_done" /\ graf_frame # NoGraf) =>
        \A lo, hi \in illium_mesh :
            ((\A z \in illium_mesh : lo <= z /\ z <= hi) /\ lo < hi) =>
                LET n == SumSeq(C11_SphereZ) - graf_frame * Len(C11_SphereZ)
                    d == Len(C11_SphereZ) * (hi - lo)
                    h == ratio_result.ratio.hundredths
                IN  /\ ratio_result.ratio.kind = "finite"
                    /\ 2 * (100 * n - h * d) <= d
                    /\ 2 * (h * d - 100 * n) <= d

\* the sphere's centre lies behind the Graf frame by a third of the depth
C11_Witness ==
    /\ pc = "ratio_done"
    /\ graf_frame = 1
    /\ C11_SphereZ = <<0>>
    /\ ratio_result.ratio = [kind |-> "finite", hundredths |-> -33]

----------------------------------------------------------------------------
(* Claims about the segmentation-preprocess hooks *)

\* the results after hook j has been dealt with
C12_After(j) == IF j < Len(results_log) THEN results_log[j + 1] ELSE results

\* the first of the signatures, in the order tried, that hook h accepts; 0 if none
C12_Accepted(h) ==
    IF 2 \in h.accepts THEN 2 ELSE IF 1 \in h.accepts THEN 1
    ELSE IF 3 \in h.accepts THEN 3 ELSE 0

\* hook h returns from the first call it accepts
C12_Returns(h) ==
    h.wellformed /\ C12_Accepted(h) # 0 /\ h.body \in {"none", "same", "new"}

\* C12: a preprocess hook that returns a value other than None makes that
\* value the results of every later stage; one that returns None leaves the
\* list object it was given in place, with the changes it made in it.
C12_ReplaceOrRetain ==
    /\ \A j \in 1..Len(results_log) :
           LET h == seg_preprocess_functions[j]
               before == results_log[j]
               written == IF h.mutates THEN before.marks \cup {j} ELSE before.marks
           IN  C12_Returns(h) =>
                   IF h.body = "new" THEN C12_After(j) = Results(j, {})
                   ELSE C12_After(j) = Results(before.id, written)
    /\ pc = "segs_2_landmarks" => segs_input = results

\* a hook that marks the list in place and returns None, then one that
\* returns a new list, which segs_2_landmarks_us receives
C12_Witness ==
    /\ pc = "segs_2_landmarks"
    /\ Len(seg_preprocess_functions) = 2
    /\ seg_preprocess_functions[1].body = "none"
    /\ seg_preprocess_functions[1].mutates
    /\ results_log[2] = Results(0, {1})
    /\ seg_preprocess_functions[2].body = "new"
    /\ segs_input = Results(2, {})

\* hook h raises under every call signature tried, or cannot be unpacked
C13_Fails(h) == ~C12_Returns(h)

\* C13: a preprocess hook that raises does not end process_segs_us: the
\* results stay the list object they were (with whatever the hook wrote
\* into it before raising), the hooks after it are run and the results go
\* on to segs_2_landmarks_us.
C13_FailingHookSkipped ==
    /\ failure = "none"
    /\ \A j \in 1..Len(results_log) :
           LET h == seg_preprocess_functions[j]
               before == results_log[j]
           IN  C13_Fails(h) =>
                   /\ C12_After(j).id = before.id
                   /\ before.marks \subseteq C12_After(j).marks
                   /\ C12_After(j).marks \subseteq before.marks \cup {j}
                   /\ sp_i > j
    /\ pc = "segs_2_landmarks" =>
           /\ Len(results_log) = Len(seg_preprocess_functions)
           /\ segs_input = results

\* a hook raises, the hook after it replaces the results and the
\* replacement reaches segs_2_landmarks_us
C13_Witness ==
    /\ pc = "segs_2_landmarks"
    /\ Len(seg_preprocess_functions) = 2
    /\ seg_preprocess_functions[1].body = "raise_Exception"
    /\ results_log[2].id = 0
    /\ seg_preprocess_functions[2].body = "new"
    /\ C12_Accepted(seg_preprocess_functions[2]) # 0
    /\ segs_input = Results(2, {})

----------------------------------------------------------------------------
(* Claims about the post-draw hooks *)

\* the overlay after post-draw hook j has been dealt with
C14_After(j) == IF j < Len(overlay_log) THEN overlay_log[j + 1] ELSE overlay

\* C14: a post-draw hook that raises is swallowed, the hooks after it and
\* apply_to_image still run for the frame, and the overlay they work on is
\* in the state it had just before the failing hook was called.
C14_OverlayAsBefore ==
    /\ failure = "none"
    /\ \A j \in 1..Len(overlay_log) :
           post_draw_functions[j] \in {"raise", "draw_raise"} =>
               /\ pd_i > j
               /\ C14_After(j) = overlay_log[j]
    /\ pc = "drawn" => Len(image_arrays) = draw_n

----------------------------------------------------------------------------
(* Claims about what process_segs_us records for a full-metric hook *)

\* one pass of the loop over the full-metric functions has recorded a metric
C15_Recorded ==
    /\ pc = "full_metrics"
    /\ fm_i <= Len(full_metric_functions)
    /\ fm_i' = fm_i + 1

\* after the pass, every key of the mapping is stored under the metric name
C15_AuxRecorded(h) ==
    /\ h.name \in DOMAIN dev_metrics_custom'
    /\ \A k \in DOMAIN h.extra :
           /\ k \in DOMAIN dev_metrics_custom'[h.name]
           /\ dev_metrics_custom'[h.name][k] = h.extra[k]

\* C15: a hook that returns a scalar has it recorded as the metric value and
\* nothing as auxiliary data; one that returns a (scalar, mapping) pair has
\* the scalar recorded as the value and the mapping as auxiliary data; one
\* that returns a mapping has 0 recorded as the value and the mapping as
\* auxiliary data.
C15_ReturnShapes ==
    [][C15_Recorded =>
          LET h == full_metric_functions[fm_i]
              m == custom_metrics'.items[fm_i]
          IN  h.arity \in 1..3 =>
                  /\ h.body = "scalar" =>
                         /\ m.value = h.value
                         /\ dev_metrics_custom' = dev_metrics_custom
                  /\ h.body = "pair" => m.value = h.value /\ C15_AuxRecorded(h)
                  /\ h.body = "dict" => m.value = 0 /\ C15_AuxRecorded(h)]_vars

\* a pair and then a mapping have been recorded
C15_Witness ==
    /\ pc = "full_metrics"
    /\ fm_i = 3
    /\ full_metric_functions[1].body = "pair"
    /\ full_metric_functions[2].body = "dict"
    /\ custom_metrics.items[1].value = 7
    /\ custom_metrics.items[2].value = 0
    /\ dev_metrics_custom["m1"] = Dict2

\* process_segs_us has returned to the entry point
C16_Returned == failure = "none" /\ pc \in {"full_metrics", "filtered", "graf", "done"} /\
                fm_i > Len(full_metric_functions)

\* C16: once process_segs_us has returned, custom_metrics has one entry per
\* registered full-metric function, in registration order, also for functions
\* registered under one name; the entries are Metric3D for analyse_hip_3DUS
\* and Metric2D for the 2D entry points.
C16_OneEntryPerHook ==
    C16_Returned =>
        /\ Len(custom_metrics.items) = Len(full_metric_functions)
        /\ \A j \in 1..Len(full_metric_functions) :
               /\ custom_metrics.items[j].name = full_metric_functions[j].name
               /\ custom_metrics.items[j].cls =
                      IF entry = "analyse_hip_3DUS" THEN "Metric3D" ELSE "Metric2D"

\* the volumetric entry point with two functions registered under one name
C16_Witness ==
    /\ C16_Returned
    /\ entry = "analyse_hip_3DUS"
    /\ Len(full_metric_functions) = 2
    /\ full_metric_functions[1].name = full_metric_functions[2].name
    /\ Len(custom_metrics.items) = 2
    /\ custom_metrics.items[2].cls = "Metric3D"

\* C17: the mapping a hook returns is merged into dev_metrics_custom under
\* the hook's metric name: its keys take its values, the other keys stored
\* under that name keep theirs, and what is stored under any other metric
\* name is not touched.
C17_MergeByName ==
    [][C15_Recorded =>
          LET h == full_metric_functions[fm_i]
              old == dev_metrics_custom
              new == dev_metrics_custom'
          IN  /\ \A n \in DOMAIN old :
                     /\ n \in DOMAIN new
                     /\ n # h.name => new[n] = old[n]
              /\ (h.arity \in 1..3 /\ h.body \in {"pair", "dict"}) =>
                     /\ C15_AuxRecorded(h)
                     /\ h.name \in DOMAIN old =>
                            \A k \in (DOMAIN old[h.name]) \ (DOMAIN h.extra) :
                                /\ k \in DOMAIN new[h.name]
                                /\ new[h.name][k] = old[h.name][k]]_vars

\* a second mapping under the same name overwrote one key and kept the other
C17_Witness ==
    /\ pc = "full_metrics"
    /\ fm_i = 3
    /\ full_metric_functions[1].extra = Dict2
    /\ full_metric_functions[2].extra = Dict1
    /\ full_metric_functions[1].name = full_metric_functions[2].name
    /\ dev_metrics_custom["m1"]["seen"] = 1
    /\ dev_metrics_custom["m1"]["count"] = 2

----------------------------------------------------------------------------
(* Claims about input errors *)

\* the call has ended, with a result or with an exception
C18_Ended == pc \in {"done", "run_done"}

\* C18: an input error is raised to the caller and never becomes a result:
\* analyse_hip_xray_2D and analyse_hip_2DUS raise for an image that is
\* neither a PIL image nor a DICOM dataset, analyse_hip_3DUS and
\* analyse_hip_2DUS_sweep raise for the LANDMARK operation type, and
\* retuve_run raises ValueError for an unknown hip_mode.
C18_InputErrorsRaise ==
    C18_Ended =>
        /\ (/\ entry \in {"analyse_hip_xray_2D", "analyse_hip_2DUS"}
            /\ image_type \notin {"PIL", "DICOM"}) => ret.status = "raised"
        /\ (/\ entry \in {"analyse_hip_3DUS", "analyse_hip_2DUS_sweep"}
            /\ operation_type = "LANDMARK") => ret.status = "raised"
        /\ run_hip_mode = "OTHER" => ret.status = "raised" /\ failure = "ValueError"

----------------------------------------------------------------------------
(* Claims about the fifteen-frame study *)

\* remove_outliers has run on the study with predictions at 1-5, 8 and 9
C19_Scenario == pc = "keep" /\ list_landmarks = StudyOf(ScenarioTrue)

\* the number of predictions in the window of seven frames that starts at j
C19_InWindow(j) == C2_InWindow(pred_made(hip_datas), j, Cardinality(ScenarioTrue))

\* C19 as stated: for that study the window chosen starts at index 1 and
\* holds 6 of the 7 predictions, or the window chosen holds more.
C19_StartOneWithSix ==
    C19_Scenario =>
        \/ max_true_index = 1 /\ C19_InWindow(1) = 6
        \/ C19_InWindow(max_true_index) > 6

\* C19 as amended: for that study the window chosen starts at index 0, covers
\* indices 0 to 6 and holds 5 of the 7 predictions (those of frames 1 to 5);
\* no window of width 7 holds more.
C19_StartZeroWithFive ==
    C19_Scenario =>
        /\ max_true_index = 0
        /\ C19_InWindow(0) = 5
        /\ \A j \in 0..(Len(hip_datas) - Cardinality(ScenarioTrue)) : C19_InWindow(j) <= 5
        /\ \A k \in 1..Len(keep) : keep[k] <=> (k - 1) \in 1..5

\* the scenario's study after remove_outliers: frames 8 and 9 are not kept
C19_Witness ==
    /\ C19_Scenario
    /\ Len(keep) = 15
    /\ keep[2] /\ keep[6]
    /\ ~keep[9] /\ ~keep[10]

----------------------------------------------------------------------------
(* Claims about _polyfit_replace_apex *)

\* the frames that have both coordinates of an apex
C20_WithApex(lms) ==
    {k \in 1..Len(lms) :
        lms[k].set /\ lms[k].apex # None /\ NoCoord \notin {lms[k].apex[1], lms[k].apex[2]}}

\* C20: with fewer than three frames with an apex, or when the fit raises,
\* the call leaves every element of the list as it was; in every case the
\* list keeps its length, a frame without an apex is left as it was, and a
\* frame that was replaced differs from the old one in its apex only.
C20_PolyfitGuard ==
    pc = "polyfit_done" =>
        /\ (Cardinality(C20_WithApex(poly_before)) < 3 \/ fit_raised) =>
               poly_landmarks = poly_before
        /\ Len(poly_landmarks) = Len(poly_before)
        /\ \A k \in 1..Len(poly_before) :
               /\ k \notin C20_WithApex(poly_before) => poly_landmarks[k] = poly_before[k]
               /\ k \in C20_WithApex(poly_before) =>
                      /\ poly_landmarks[k].set
                      /\ poly_landmarks[k].apex # None
                      /\ \A f \in {"left", "right", "point_D", "point_d", "mid_cov_point"} :
                             poly_landmarks[k][f] = poly_before[k][f]

\* a frame with all six points was replaced: its apex moved and nothing else
C20_Witness ==
    /\ pc = "polyfit_done"
    /\ \E k \in 1..Len(poly_before) :
           /\ poly_before[k].set
           /\ poly_before[k].point_D = PolyPoint
           /\ poly_landmarks[k].apex # poly_before[k].apex
           /\ poly_landmarks[k].point_D = PolyPoint

\* the apex coordinate c of frame j lies off the line through the apexes of
\* frames a and b by the numerator returned, over the denominator b - a
C21_Off(lms, a, b, j, c) ==
    (lms[j + 1].apex[c] - lms[a + 1].apex[c]) * (b - a)
        - (lms[b + 1].apex[c] - lms[a + 1].apex[c]) * (j - a)

\* frame j is the one outlier of the series: every other frame lies on one
\* line, and frame j lies more than MaxPixelErr pixels off it
C21_OutlierAt(lms, j) ==
    LET rest == (0..(Len(lms) - 1)) \ {j}
    IN  /\ Len(lms) >= 5
        /\ j \in 0..(Len(lms) - 1)
        /\ \A a, b, k \in rest :
               a < b => C21_Off(lms, a, b, k, 1) = 0 /\ C21_Off(lms, a, b, k, 2) = 0
        /\ \E a, b \in rest :
               /\ a < b
               /\ C21_Off(lms, a, b, j, 1) * C21_Off(lms, a, b, j, 1)
                    + C21_Off(lms, a, b, j, 2) * C21_Off(lms, a, b, j, 2)
                    > MaxPixelErr * MaxPixelErr * (b - a) * (b - a)

\* C21: in a series of at least five apexes that lie on a line except for one
\* outlier more than 8 pixels off it, the call replaces the apex of the
\* outlier frame and leaves the apex of every other frame as it was.
C21_OnlyOutlierReplaced ==
    (pc = "polyfit_done" /\ ~fit_raised) =>
        \A j \in 0..(Len(poly_before) - 1) :
            C21_OutlierAt(poly_before, j) =>
                /\ poly_landmarks[j + 1].apex # poly_before[j + 1].apex
                /\ \A k \in 1..Len(poly_before) :
                       k # j + 1 => poly_landmarks[k].apex = poly_before[k].apex

----------------------------------------------------------------------------
(* Claims about a study without a Graf frame *)

\* C22: when the selection of the Graf plane leaves graf_frame unset,
\* analyse_hip_2DUS_sweep does not raise, for any sequence of frames: it
\* returns a hip, no Graf image and a video clip.
C22_NoGrafNoCrash ==
    [][(FinishSweep /\ graf_frame = NoGraf) =>
           (ret'.status = "returned" /\ ~ret'.all_none /\ failure' = "none")]_vars

----------------------------------------------------------------------------
(* Claims about the order of the stages *)

\* C23: in every mode the bad-frame filter runs, and every full-metric hook
\* is invoked only after the bad-frame filter has run, so that the hooks see
\* the filtered hip_datas and a call returns only filtered frames.
C23_FilterBeforeHooks ==
    [][/\ FullMetric => calls >= 1
       /\ (Finish2DUS \/ Finish3DUS \/ FinishSweep) => calls >= 1]_vars

----------------------------------------------------------------------------
(* Claims about the frames handle_bad_frames keeps *)

C24_Pred == pred_made(pre_hip_datas)

\* the number of predictions in the window that starts at frame j
C24_InWindow(j) == SumSlice(C24_Pred, j, j + total_true(C24_Pred))

\* the frame at position k passes every validity rule
C24_PassesRules(k) ==
    ~FrameVerdict(pre_hip_datas[k], TRUE, all_seg_rejection_reasons[k], hip_mode,
                  allow_irregular_illiums).empty

\* C24: the frames kept as candidates are, in sweep mode, the frames with a
\* prediction and, in windowed mode, the frames with a prediction inside the
\* winning window; every other frame is replaced by an empty placeholder and
\* no validity rule is evaluated for it (it gets no reason in windowed mode
\* and the upstream reasons or "Not Enough Data" in sweep mode).
C24_KeepCandidates ==
    calls >= 1 =>
        /\ hip_mode = "US2DSW" => keep = C24_Pred
        /\ hip_mode # "US2DSW" =>
               /\ \A j \in 0..(Len(C24_Pred) - total_true(C24_Pred)) :
                      C24_InWindow(j) <= C24_InWindow(max_true_index)
               /\ \A k \in 1..Len(C24_Pred) :
                      keep[k] = (/\ C24_Pred[k]
                                 /\ max_true_index <= k - 1
                                 /\ k - 1 < max_true_index + total_true(C24_Pred))
        /\ \A k \in 1..Len(keep) :
               ~keep[k] =>
                   /\ hip_datas[k] = EmptyHip(pre_hip_datas[k].frame_no)
                   /\ IF hip_mode = "US2DSW"
                      THEN /\ (k - 1) \in DOMAIN bad_frame_reasons
                           /\ bad_frame_reasons[k - 1] =
                                  (IF all_seg_rejection_reasons[k] = <<>>
                                   THEN "Not Enough Data"
                                   ELSE Join(all_seg_rejection_reasons[k]))
                      ELSE (k - 1) \notin DOMAIN bad_frame_reasons

\* in windowed mode a frame with a prediction that passes every rule lies
\* outside the window and was emptied
C24_Witness ==
    /\ calls = 1
    /\ hip_mode = "US3D"
    /\ \E k \in 1..Len(keep) :
           /\ C24_Pred[k]
           /\ ~keep[k]
           /\ C24_PassesRules(k)
           /\ IsEmptyHip(hip_datas[k])
           /\ ~IsEmptyHip(pre_hip_datas[k])

----------------------------------------------------------------------------
(* Claims about the two hook loops of process_segs_us *)

\* C25: every preprocess hook has been dealt with before the first
\* full-metric hook is called, and each full-metric hook that takes three
\* arguments is given the results the last preprocess hook left, the list
\* segs_2_landmarks_us turned into the frames; when no hook replaced it that
\* is the list modes_func returned, with every mark the hooks wrote into it.
C25_HooksSeePreprocessed ==
    fm_results # <<>> =>
        /\ sp_i > Len(seg_preprocess_functions)
        /\ Len(results_log) = Len(seg_preprocess_functions)
        /\ \A k \in 1..Len(fm_results) :
               full_metric_functions[k].arity = 3 =>
                   /\ fm_results[k] = C12_After(Len(seg_preprocess_functions))
                   /\ fm_results[k] = segs_input
                   /\ (\A j \in 1..Len(seg_preprocess_functions) :
                           ~(C12_Returns(seg_preprocess_functions[j])
                             /\ seg_preprocess_functions[j].body = "new")) =>
                          /\ fm_results[k].id = 0
                          /\ \A j \in 1..Len(seg_preprocess_functions) :
                                 (C12_Returns(seg_preprocess_functions[j])
                                  /\ seg_preprocess_functions[j].mutates) =>
                                     j \in fm_results[k].marks

\* a preprocess hook marks the list and returns None, and a full-metric
\* hook of three arguments is given that list with the mark
C25_Witness ==
    /\ Len(seg_preprocess_functions) = 1
    /\ seg_preprocess_functions[1].body = "none"
    /\ seg_preprocess_functions[1].mutates
    /\ Len(fm_results) >= 1
    /\ full_metric_functions[1].arity = 3
    /\ fm_results[1] = Results(0, {1})

----------------------------------------------------------------------------
(* Claims about the reference points of get_centering_ratio *)

C26_Center ==
    <<Mean(femoral_head_sphere[1]), Mean(femoral_head_sphere[2]),
      Mean(femoral_head_sphere[3])>>

\* the point with the x and y of the femoral-head center at height z
C26_At(z) == <<C26_Center[1], C26_Center[2], Whole(z)>>

\* C26: with a Graf frame set, get_centering_ratio returns the three points
\* in the order femoral-head center, min-z point, max-z point, the last two
\* with the x and y of the center and the least and greatest z of the mesh.
C26_PointOrder ==
    (pc = "ratio_done" /\ graf_frame # NoGraf) =>
        ratio_result.points =
            <<C26_Center, C26_At(SetMin(illium_mesh)), C26_At(SetMax(illium_mesh))>>

----------------------------------------------------------------------------
(* Claims about retuve_run and a failed analysis *)

\* C27: when the entry point retuve_run dispatched to returned only None
\* values, retuve_run does not raise: it returns a RetuveResult, whose
\* metrics are empty or None.
C27_AllNoneBecomesResult ==
    [][(RunResult /\ ret.all_none) =>
           (ret'.status = "result" /\ ret'.metrics.items = <<>> /\ failure' = failure)]_vars

----------------------------------------------------------------------------
(* Claims about the loop of handle_bad_frames *)

\* what one pass of the loop makes of the frame at position k
C28_Verdict(k) ==
    FrameVerdict(pre_hip_datas[k], keep[k], all_seg_rejection_reasons[k], hip_mode,
                 allow_irregular_illiums)

\* C28: handle_bad_frames examines frame i only when i is below the length
\* of all_seg_rejection_reasons: a frame at a higher index is returned as it
\* was and without a reason, whatever its keep flag and the rules say; when
\* the list is as long as the frames, every frame is examined.
C28_ZipBound ==
    calls >= 1 =>
        \A k \in 1..Len(hip_datas) :
            IF k > Len(all_seg_rejection_reasons)
            THEN /\ hip_datas[k] = pre_hip_datas[k]
                 /\ (k - 1) \notin DOMAIN bad_frame_reasons
            ELSE /\ hip_datas[k] = (IF C28_Verdict(k).empty
                                    THEN EmptyHip(pre_hip_datas[k].frame_no)
                                    ELSE pre_hip_datas[k])
                 /\ (k - 1) \in DOMAIN bad_frame_reasons <=> C28_Verdict(k).reason.has
                 /\ C28_Verdict(k).reason.has =>
                        bad_frame_reasons[k - 1] = C28_Verdict(k).reason.text

\* a frame beyond the end of all_seg_rejection_reasons is left as it was
\* although it fails the rules or is not to be kept
C28_Witness ==
    /\ calls = 1
    /\ \E k \in 1..Len(hip_datas) :
           /\ k > Len(all_seg_rejection_reasons)
           /\ FrameVerdict(pre_hip_datas[k], keep[k], <<>>, hip_mode,
                           allow_irregular_illiums).empty
           /\ ~IsEmptyHip(hip_datas[k])
           /\ hip_datas[k] = pre_hip_datas[k]

----------------------------------------------------------------------------
(* Claims about bad_frame_reasons *)

\* the reasons the validity rules of handle_bad_frames write
C29_RuleReasons ==
    {"No Metrics", "No Landmarks", "Alpha Angle Non-Sensical", "Ilium Line not Flat",
     "Coverage Value Non-Sensical", "Apex and Right Too Close"}

\* C29: after a call of handle_bad_frames every index in bad_frame_reasons
\* holds an empty placeholder, so no frame that kept its content has a
\* reason; and the dict holds the reasons of that call only: a rule reason
\* belongs to a frame that was a keep candidate with content in this call,
\* and a frame that was not a keep candidate has the reason this call gives
\* it (none in windowed mode), whatever an earlier call had recorded.
C29_ReasonsOfThisCall ==
    calls >= 1 =>
        /\ \A i \in DOMAIN bad_frame_reasons :
               /\ i + 1 \in 1..Len(hip_datas)
               /\ IsEmptyHip(hip_datas[i + 1])
               /\ hip_datas[i + 1].frame_no = pre_hip_datas[i + 1].frame_no
        /\ \A k \in 1..Len(hip_datas) :
               ~IsEmptyHip(hip_datas[k]) =>
                   /\ (k - 1) \notin DOMAIN bad_frame_reasons
                   /\ hip_datas[k] = pre_hip_datas[k]
        /\ \A i \in DOMAIN bad_frame_reasons :
               IF keep[i + 1]
               THEN /\ bad_frame_reasons[i] \in C29_RuleReasons
                    /\ marked(pre_hip_datas[i + 1])
               ELSE /\ hip_mode = "US2DSW"
                    /\ bad_frame_reasons[i] =
                           (IF all_seg_rejection_reasons[i + 1] = <<>>
                            THEN "Not Enough Data"
                            ELSE Join(all_seg_rejection_reasons[i + 1]))

\* a reason an earlier call recorded is gone after the next call
C29_Witness ==
    /\ calls = 2
    /\ \E i \in DOMAIN pre_bad_frame_reasons :
           /\ pre_bad_frame_reasons[i] \in C29_RuleReasons
           /\ i \notin DOMAIN bad_frame_reasons
           /\ IsEmptyHip(hip_datas[i + 1])

----------------------------------------------------------------------------
(* Claims about the frames remove_outliers keeps *)

C30_Pred == pred_made(hip_datas)

C30_Kept == {k \in 1..Len(keep) : keep[k]}

C30_True == {k \in 1..Len(C30_Pred) : C30_Pred[k]}

\* the frames with a prediction are one run without a gap
C30_OneRun == \A a, b \in C30_True : \A k \in a..b : k \in C30_True

\* C30: for a mask with T predictions remove_outliers keeps no frame without
\* a prediction, keeps at most T frames, all of them inside one window of T
\* frames, keeps nothing when T = 0, and keeps every frame with a prediction
\* exactly when these frames are one contiguous run.
C30_KeptWithinWindow ==
    pc = "keep" =>
        LET T == Cardinality(C30_True)
        IN  /\ Len(keep) = Len(C30_Pred)
            /\ C30_Kept \subseteq C30_True
            /\ Cardinality(C30_Kept) <= T
            /\ \E s \in 0..Len(keep) : \A k \in C30_Kept : s < k /\ k <= s + T
            /\ T = 0 => C30_Kept = {}
            /\ T >= 1 => (C30_Kept = C30_True <=> C30_OneRun)

\* a run of predictions that starts after the first frame is kept whole
C30_Witness ==
    /\ pc = "keep"
    /\ Len(keep) >= 4
    /\ ~C30_Pred[1]
    /\ C30_OneRun
    /\ Cardinality(C30_True) >= 2
    /\ C30_Kept = C30_True

====
